---- MODULE Spec2Model ----
(***************************************************************************)
(* ViaCortex reverse proxy: the Config Store, the Loader, the HTTP request *)
(* pipeline (IP rules, rate limit, backend selection, upstream dispatch)   *)
(* and the Metrics Aggregator, modelled from server/internal/proxy and     *)
(* server/internal/api.                                                    *)
(*                                                                         *)
(* Strings are sequences of tokens, so that string concatenation and       *)
(* prefix tests are computed and not assumed: the host "a.example:8080"    *)
(* is <<"a.example", ":8080">>, the URL "tcp://mc:25565" is                *)
(* <<"tcp://", "mc", ":25565">>.                                           *)
(***************************************************************************)
EXTENDS Integers, Sequences, FiniteSets, TLC

VARIABLES
    catalog,     \* every row the domains table may hold (fixed in a run)
    db,          \* the control-plane store: the domains rows now present
    domains,     \* ProxyServer.domains : routing key -> DomainConfig
    rateLimits,  \* ProxyServer.rateLimits : limiter key -> token bucket
    metrics,     \* MetricsCollector.metrics : routing key -> DomainMetrics
    now,         \* the clock, in ticks of 1/TicksPerSec second
    loader,      \* the position and locals of Loader.LoadAllDomains, with
                 \* the store as the cycle found it (start), the keys whose
                 \* backend load failed (skipped), whether nothing failed
                 \* (clean) and what the latest cycle returned (result)
    last,        \* the latest HTTP request and what the proxy did with it;
                 \* fresh: no cycle began since, and the latest one was clean
    prev,        \* the rate-limited request before the latest one
    selLog,      \* per routing key, the backends selected since publication
    admitLog,    \* per limiter key, the ticks at which a request was admitted
    tcp,         \* the TCP session in progress, or the outcome of the last one
    inflight,    \* an HTTPS request taken through ServeHTTP stage by stage
    flush,       \* the position and locals of MetricsCollector.flush, the
                 \* metrics rows it appended, and a Record call that waits
    proc,        \* the goroutines of main: the three timer loops, the two
                 \* servers' wait group and the signal-handling goroutine
    rr,          \* concurrent calls of selectBackend on one DomainConfig
    probe        \* the latest health probe: its backend and its attempts

vars == <<catalog, db, domains, rateLimits, metrics, now, loader, last, prev,
          selLog, admitLog, tcp, inflight, flush, proc, rr, probe>>

(***************************************************************************)
(* An HTTP request as a listener receives it: the port it arrived on, the  *)
(* Host header, the host part of RemoteAddr, whether the path is an ACME   *)
(* challenge, what the upstream answers, the time it takes and the path.   *)
(* NoRequest stands for "no request yet".                                  *)
(***************************************************************************)
NoRequest == [port |-> 0, host |-> <<>>, client |-> "", acme |-> "none",
              up |-> 0, dur |-> 0, path |-> ""]

Req(port, host, client, acme, up) ==
    [port |-> port, host |-> host, client |-> client, acme |-> acme,
     up |-> up, dur |-> 1, path |-> "/x"]

(***************************************************************************)
(* Bounds of the model.                                                    *)
(***************************************************************************)
AddrBits == 1        \* client addresses are AddrBits wide
MaxRules == 2        \* IP rules per domain
MaxRecords == 3      \* requests counted per domain in a metrics window
MaxTime == 3         \* ticks the clock advances
MaxWindow == 3       \* selections remembered per routing key
MaxBackends == 2     \* backends per domain
MaxWeight == 2       \* weight of a backend
MaxSelectors == 2    \* goroutines that call selectBackend at once
MaxRows == 1         \* rows the metrics flush appends in a run

TicksPerSec == 2

RECURSIVE Pow2(_)
Pow2(n) == IF n = 0 THEN 1 ELSE 2 * Pow2(n - 1)

Min(a, b) == IF a < b THEN a ELSE b

Range(s) == {s[i] : i \in 1..Len(s)}

(***************************************************************************)
(* Addresses.  net.ParseIP maps the textual host to an address; a host     *)
(* that is no IP literal (a zone-scoped address, "@" for a unix socket)    *)
(* parses to nil.                                                          *)
(***************************************************************************)
NoIP == -1
Addrs == 0..(Pow2(AddrBits) - 1)
IPString(a) == "10.0.0." \o ToString(a)
BadHost == "fe80::1%eth0"
ClientHosts == {IPString(a) : a \in Addrs} \cup {BadHost}

ParseIP(host) ==
    IF \E a \in Addrs : IPString(a) = host
    THEN CHOOSE a \in Addrs : IPString(a) = host
    ELSE NoIP

\* net.ParseCIDR: the network is the address masked to its prefix length.
Mask(a, bits) == (a \div Pow2(AddrBits - bits)) * Pow2(AddrBits - bits)
ParseCIDR(r) == [base |-> Mask(r.base, r.bits), bits |-> r.bits]
\* net.IPNet.Contains
Contains(ipnet, ip) == Mask(ip, ipnet.bits) = ipnet.base

(***************************************************************************)
(* Host header: net.SplitHostPort strips a trailing port when there is one.*)
(***************************************************************************)
PortTokens == {":80", ":443", ":8080", ":25565"}
StripPort(h) ==
    IF Len(h) > 1 /\ h[Len(h)] \in PortTokens
    THEN SubSeq(h, 1, Len(h) - 1)
    ELSE h

(***************************************************************************)
(* The control-plane store.  A domains row carries its child rows:         *)
(*   [id, name, target_url, ssl_enabled, health_check_enabled,             *)
(*    backends : Seq([id, scheme, ip, port, weight, is_active,             *)
(*                    health_status]),                                     *)
(*    rules    : Seq([ip_range : [base, bits], rule_type]),                *)
(*    limit    : NoRow or [requests_per_second, burst_size, per_ip]]       *)
(***************************************************************************)
NULL == "NULL"          \* SQL NULL of backend_servers.health_status
NoRow == [requests_per_second |-> 0, burst_size |-> 0, per_ip |-> FALSE,
          present |-> FALSE]
NilRateLimit == [RequestsPerSecond |-> 0, BurstSize |-> 0, PerIP |-> FALSE,
                 set |-> FALSE]

\* net.ParseIP(ipStr).To4() is nil for anything but an IPv4 literal.
To4OK(ip) == ip \in {"10.1.0.1", "10.1.0.2", "10.1.0.3"}

\* loader.go: the routing key of a domains row.
HasPrefixTCP(url) == Len(url) > 0 /\ url[1] = "tcp://"
domainKey(row) == IF HasPrefixTCP(row.target_url) THEN row.name
                  ELSE row.target_url

\* A loadBackends that leaves every HealthStatus nil.
RECURSIVE loadBackends_noHealth(_)
loadBackends_noHealth(rows) ==
    IF rows = <<>> THEN <<>>
    ELSE LET r == Head(rows)
             b == [ID |-> r.id, Scheme |-> r.scheme, IP |-> r.ip,
                   Port |-> r.port, Weight |-> r.weight,
                   IsActive |-> r.is_active, HealthStatus |-> NULL]
         IN  IF To4OK(r.ip) THEN <<b>> \o loadBackends_noHealth(Tail(rows))
             ELSE loadBackends_noHealth(Tail(rows))

\* loader.go loadBackends: one BackendServer per row with an IPv4 address;
\* a NULL health_status leaves HealthStatus nil.
RECURSIVE loadBackends(_)
loadBackends(rows) ==
    IF rows = <<>> THEN <<>>
    ELSE LET r == Head(rows)
             b == [ID |-> r.id, Scheme |-> r.scheme, IP |-> r.ip,
                   Port |-> r.port, Weight |-> r.weight,
                   IsActive |-> r.is_active,
                   HealthStatus |-> r.health_status]
         IN  IF To4OK(r.ip) THEN <<b>> \o loadBackends(Tail(rows))
             ELSE loadBackends(Tail(rows))

\* loader.go loadIPRules
RECURSIVE loadIPRules(_)
loadIPRules(rows) ==
    IF rows = <<>> THEN <<>>
    ELSE <<[IPRange |-> ParseCIDR(Head(rows).ip_range),
            RuleType |-> Head(rows).rule_type]>> \o loadIPRules(Tail(rows))

\* loader.go loadRateLimit: nil when the domain has no rate_limits row.
loadRateLimit(row) ==
    IF row.present
    THEN [RequestsPerSecond |-> row.requests_per_second,
          BurstSize |-> row.burst_size, PerIP |-> row.per_ip, set |-> TRUE]
    ELSE NilRateLimit

\* The child rows of domain id as the store holds them now.
DBRowsOf(id) == SelectSeq(db, LAMBDA r : r.id = id)
DBBackends(id) == IF DBRowsOf(id) = <<>> THEN <<>> ELSE DBRowsOf(id)[1].backends
DBRules(id) == IF DBRowsOf(id) = <<>> THEN <<>> ELSE DBRowsOf(id)[1].rules
DBLimit(id) == IF DBRowsOf(id) = <<>> THEN NoRow ELSE DBRowsOf(id)[1].limit

(***************************************************************************)
(* Config Store.                                                           *)
(***************************************************************************)
\* A function with one more key, or one key replaced (sync.Map.Store).
Store(m, k, v) == [x \in (DOMAIN m) \cup {k} |-> IF x = k THEN v ELSE m[x]]
\* sync.Map.Delete
Delete(m, k) == [x \in (DOMAIN m) \ {k} |-> m[x]]
EmptyMap == [x \in {} |-> 0]

\* proxy.go UpdateDomain: the config replaces whatever the key held.
UpdateDomain(m, domain, config) == Store(m, domain, config)
\* proxy.go DeleteDomain
DeleteDomain(m, domain) == Delete(m, domain)

\* loader.go LoadAllDomains, lines 99-125: the DomainConfig built for a row;
\* a failed IP-rule or rate-limit load leaves that field nil.
BuildConfig(row, failRules, failLimit) ==
    [Domain |-> domainKey(row),
     SSLEnabled |-> row.ssl_enabled,
     HealthCheckEnabled |-> row.health_check_enabled,
     Backends |-> loadBackends(DBBackends(row.id)),
     IPRules |-> IF failRules THEN <<>> ELSE loadIPRules(DBRules(row.id)),
     RateLimit |-> IF failLimit THEN NilRateLimit
                   ELSE loadRateLimit(DBLimit(row.id)),
     currentBackend |-> 0]

\* A removal pass that forgets to delete.
RemoveUnloaded_keepsAll(m, loaded) == m

\* loader.go LoadAllDomains, lines 133-140: every key not loaded in this
\* cycle is deleted.
RemoveUnloaded(m, loaded) == [x \in (DOMAIN m) \cap loaded |-> m[x]]

(***************************************************************************)
(* Request pipeline (proxy.go).                                            *)
(***************************************************************************)
\* proxy.go checkIPRules: the first rule whose range contains the client
\* decides; an unparsable client address is refused; no match admits.
\* A scan in which any containing blacklist rule refuses, wherever it stands.
firstMatch_anyBlacklist(rules, ip) ==
    \A i \in 1..Len(rules) :
        Contains(rules[i].IPRange, ip) => rules[i].RuleType = "whitelist"

RECURSIVE firstMatch(_, _)
firstMatch(rules, ip) ==
    IF rules = <<>> THEN TRUE
    ELSE IF Contains(Head(rules).IPRange, ip)
         THEN Head(rules).RuleType = "whitelist"
         ELSE firstMatch(Tail(rules), ip)

checkIPRules(host, config) ==
    LET clientIP == ParseIP(host)
    IN  IF clientIP = NoIP THEN FALSE
        ELSE firstMatch(config.IPRules, clientIP)

\* golang.org/x/time/rate as checkRateLimit uses it.  Tokens are counted in
\* units of 1/TicksPerSec token, so a tick adds `limit` units and a request
\* costs TicksPerSec units.
NewLimiter(r, b, t) == [limit |-> r, burst |-> b, tokens |-> b * TicksPerSec,
                        last |-> t]
Advance(lim, t) == Min(lim.burst * TicksPerSec,
                       lim.tokens + (t - lim.last) * lim.limit)
AllowOK(lim, t) == Advance(lim, t) >= TicksPerSec
Allow(lim, t) ==
    IF AllowOK(lim, t)
    THEN [lim EXCEPT !.tokens = Advance(lim, t) - TicksPerSec, !.last = t]
    ELSE lim

\* fmt.Sprintf("%s-%s", config.Domain, host)
Sprintf(domain, host) == domain \o <<"-">> \o <<host>>

\* proxy.go checkRateLimit, lines 817-826: the key of the limiter.
limiterKey(host, config) ==
    IF config.RateLimit.PerIP THEN Sprintf(config.Domain, host)
    ELSE config.Domain

\* A LoadOrStore that replaces the entry it finds.
LoadOrStore_alwaysStore(m, k, v) == Store(m, k, v)

\* sync.Map.LoadOrStore
LoadOrStore(m, k, v) == IF k \in DOMAIN m THEN m ELSE Store(m, k, v)

\* proxy.go checkRateLimit: [ok, rateLimits] after the call.
checkRateLimit(limiters, host, config, t) ==
    IF ~config.RateLimit.set THEN [ok |-> TRUE, rateLimits |-> limiters]
    ELSE LET key == limiterKey(host, config)
             m == LoadOrStore(limiters, key,
                     NewLimiter(config.RateLimit.RequestsPerSecond,
                                config.RateLimit.BurstSize, t))
         IN  [ok |-> AllowOK(m[key], t),
              rateLimits |-> [m EXCEPT ![key] = Allow(m[key], t)]]

\* A predicate that forgets the active flag.
Selectable_ignoresActive(b) ==
    b.HealthStatus = NULL \/ b.HealthStatus = "healthy"

\* proxy.go selectBackend, line 849
Selectable(b) == b.IsActive /\ (b.HealthStatus = NULL \/ b.HealthStatus = "healthy")

\* proxy.go selectBackend: the loop of lines 845-852, from cursor cur with
\* i iterations done; idx is the 1-based index returned, 0 for nil.
RECURSIVE selectLoop(_, _, _)
selectLoop(backends, cur, i) ==
    IF i >= Len(backends) THEN [idx |-> 0, cur |-> cur]
    ELSE LET c == (cur + 1) % Len(backends)
         IN  IF Selectable(backends[c + 1]) THEN [idx |-> c + 1, cur |-> c]
             ELSE selectLoop(backends, c, i + 1)

selectBackend(config) ==
    IF Len(config.Backends) = 0 THEN [idx |-> 0, cur |-> config.currentBackend]
    ELSE selectLoop(config.Backends, config.currentBackend, 0)

(***************************************************************************)
(* Metrics Aggregator (routes.go).                                         *)
(***************************************************************************)
NewDomainMetrics == [RequestCount |-> 0, ErrorCount |-> 0, TCPCount |-> 0,
                     Latencies |-> <<>>, TCPLatencies |-> <<>>]

\* routes.go RecordRequest
RecordRequest(m, domain, statusCode, duration) ==
    LET ms == LoadOrStore(m, domain, NewDomainMetrics)
    IN  [ms EXCEPT ![domain] =
            [@ EXCEPT !.RequestCount = @ + 1,
                      !.Latencies = Append(@, duration),
                      !.ErrorCount = IF statusCode >= 400 THEN @ + 1 ELSE @]]

\* routes.go RecordTCPRequest
RecordTCPRequest(m, domain, duration) ==
    LET ms == LoadOrStore(m, domain, NewDomainMetrics)
    IN  [ms EXCEPT ![domain] =
            [@ EXCEPT !.TCPCount = @ + 1,
                      !.TCPLatencies = Append(@, duration)]]

\* routes.go RecordError
RecordError(m, domain) ==
    LET ms == LoadOrStore(m, domain, NewDomainMetrics)
    IN  [ms EXCEPT ![domain] = [@ EXCEPT !.ErrorCount = @ + 1]]

(***************************************************************************)
(* HTTP entry points.  A request is                                        *)
(*   [port, host, client, acme, up, dur]                                   *)
(* port: the listener; host: the Host header; client: the host part of     *)
(* RemoteAddr; acme: "none" for a path outside /.well-known/acme-challenge *)
(* and else whether the token is "served" or "notfound"; up: the status    *)
(* the upstream answers with, 0 for a transport error; dur: elapsed ms.    *)
(* An outcome holds the response and the three maps after the call.        *)
(***************************************************************************)
NoConfig == [Domain |-> <<>>, SSLEnabled |-> FALSE,
             HealthCheckEnabled |-> FALSE, Backends |-> <<>>,
             IPRules |-> <<>>, RateLimit |-> NilRateLimit,
             currentBackend |-> 0]
NoBackend == [ID |-> 0, Scheme |-> "", IP |-> "", Port |-> 0, Weight |-> 0,
              IsActive |-> FALSE, HealthStatus |-> NULL]

Outcome(status, stage, d, rl, m, config, backend) ==
    [status |-> status, stage |-> stage, domains |-> d, rateLimits |-> rl,
     metrics |-> m, config |-> config, backend |-> backend]

\* proxy.go httpHandler, lines 1272-1275: the redirect target is the request
\* URL with Host set to the Host header and Scheme set to https.
RedirectURL(req) == <<"https://">> \o req.host \o <<req.path>>

\* proxy.go handleACMEChallenge: an ACME path is answered here, with the key
\* authorization or with 404, and the request goes no further.
handleACMEChallenge(req) == req.acme # "none"

\* A ServeHTTP that picks the backend right after the lookup, before the
\* IP rules and the rate limit are checked.
ServeHTTP_selectsFirst(req) ==
    IF handleACMEChallenge(req)
    THEN Outcome(IF req.acme = "served" THEN 200 ELSE 404, "acme",
                 domains, rateLimits, metrics, NoConfig, NoBackend)
    ELSE
    LET domain == StripPort(req.host) IN
    IF domain \notin DOMAIN domains
    THEN Outcome(404, "lookup", domains, rateLimits, metrics, NoConfig,
                 NoBackend)
    ELSE
    LET config == domains[domain]
        sel == selectBackend(config)
        d2 == [domains EXCEPT ![domain].currentBackend = sel.cur]
    IN
    IF ~checkIPRules(req.client, config)
    THEN Outcome(403, "iprules", d2, rateLimits, metrics, config, NoBackend)
    ELSE
    LET rl == checkRateLimit(rateLimits, req.client, config, now) IN
    IF ~rl.ok
    THEN Outcome(429, "ratelimit", d2, rl.rateLimits, metrics, config,
                 NoBackend)
    ELSE
    IF sel.idx = 0
    THEN Outcome(503, "select", d2, rl.rateLimits, metrics, config, NoBackend)
    ELSE
    LET backend == config.Backends[sel.idx] IN
    IF req.up = 0 \/ backend.Scheme \notin {"http", "https"}
    THEN Outcome(502, "upstream", d2, rl.rateLimits,
                 RecordError(metrics, domain), config, backend)
    ELSE Outcome(req.up, "upstream", d2, rl.rateLimits,
                 RecordRequest(metrics, domain, req.up, req.dur), config,
                 backend)

\* proxy.go ServeHTTP
ServeHTTP(req) ==
    IF handleACMEChallenge(req)
    THEN Outcome(IF req.acme = "served" THEN 200 ELSE 404, "acme",
                 domains, rateLimits, metrics, NoConfig, NoBackend)
    ELSE
    LET domain == StripPort(req.host) IN
    IF domain \notin DOMAIN domains
    THEN Outcome(404, "lookup", domains, rateLimits, metrics, NoConfig,
                 NoBackend)
    ELSE
    LET config == domains[domain] IN
    IF ~checkIPRules(req.client, config)
    THEN Outcome(403, "iprules", domains, rateLimits, metrics, config,
                 NoBackend)
    ELSE
    LET rl == checkRateLimit(rateLimits, req.client, config, now) IN
    IF ~rl.ok
    THEN Outcome(429, "ratelimit", domains, rl.rateLimits, metrics, config,
                 NoBackend)
    ELSE
    LET sel == selectBackend(config)
        d2 == [domains EXCEPT ![domain].currentBackend = sel.cur]
    IN
    IF sel.idx = 0
    THEN Outcome(503, "select", d2, rl.rateLimits, metrics, config, NoBackend)
    ELSE
    LET backend == config.Backends[sel.idx] IN
    IF req.up = 0 \/ backend.Scheme \notin {"http", "https"}
    THEN \* ErrorHandler
         Outcome(502, "upstream", d2, rl.rateLimits,
                 RecordError(metrics, domain), config, backend)
    ELSE \* ModifyResponse
         Outcome(req.up, "upstream", d2, rl.rateLimits,
                 RecordRequest(metrics, domain, req.up, req.dur), config,
                 backend)

\* A port-80 handler that serves every domain itself.
httpHandler_noRedirect(req) == ServeHTTP(req)

\* proxy.go httpHandler: the port-80 listener.
httpHandler(req) ==
    IF handleACMEChallenge(req)
    THEN Outcome(IF req.acme = "served" THEN 200 ELSE 404, "acme",
                 domains, rateLimits, metrics, NoConfig, NoBackend)
    ELSE
    LET host == StripPort(req.host) IN
    IF host \notin DOMAIN domains
    THEN Outcome(404, "lookup", domains, rateLimits, metrics, NoConfig,
                 NoBackend)
    ELSE IF domains[host].SSLEnabled
    THEN Outcome(307, "redirect", domains, rateLimits, metrics,
                 domains[host], NoBackend)
    ELSE ServeHTTP(req)

\* proxy.go Run: port 80 is served by httpHandler, port 443 by ServeHTTP.
Handle(req) == IF req.port = 80 THEN httpHandler(req) ELSE ServeHTTP(req)

(***************************************************************************)
(* What a step is remembered by.                                           *)
(***************************************************************************)
RECURSIVE SumOver(_, _)
SumOver(m, field) ==
    IF DOMAIN m = {} THEN 0
    ELSE LET k == CHOOSE x \in DOMAIN m : TRUE
         IN  m[k][field] + SumOver(Delete(m, k), field)

\* The number of RecordRequest and RecordError calls that lead from
\* metrics m to metrics m2.
RecordsMade(m, m2) ==
    LET dReq == SumOver(m2, "RequestCount") - SumOver(m, "RequestCount")
        dErr == SumOver(m2, "ErrorCount") - SumOver(m, "ErrorCount")
    IN  IF dReq > 0 THEN dReq ELSE dErr

NoLast == [req |-> NoRequest, status |-> 0, stage |-> "none",
           config |-> NoConfig, backend |-> NoBackend, location |-> <<>>,
           records |-> 0, key |-> <<>>, limited |-> FALSE,
           sameDomains |-> TRUE, sameLimits |-> TRUE, sameMetrics |-> TRUE,
           fresh |-> FALSE]
NoLimited == [domain |-> <<>>, client |-> "", perIP |-> FALSE, key |-> <<>>]

PastRateLimit(stage) == stage \in {"select", "upstream"}
ReachedRateLimit(stage) == stage \in {"ratelimit", "select", "upstream"}

Truncate(s) == IF Len(s) > MaxWindow THEN SubSeq(s, Len(s) - MaxWindow + 1, Len(s))
               ELSE s

(***************************************************************************)
(* ServeHTTP stage by stage, for the steps of a Loader cycle that fall     *)
(* between its stages.  inflight holds the handler's position and locals:  *)
(*   pc       "idle", "rules", "limit", "select" or "done"                 *)
(*   config   the *DomainConfig that domains.Load returned (line 719)      *)
(*   stale    the Config Store no longer holds that pointer under the key  *)
(*   rulesOf, limitOf, backendsOf   what each stage evaluated, as a        *)
(*            one-element sequence, empty before the stage                 *)
(***************************************************************************)
Unset == <<>>
NoInflight == [pc |-> "idle", req |-> NoRequest, domain |-> <<>>,
               config |-> NoConfig, stale |-> FALSE, status |-> 0,
               rulesOf |-> Unset, limitOf |-> Unset, backendsOf |-> Unset]

\* The Config Store replaces or deletes the entry of key k: a handler that
\* holds the entry's old pointer holds it alone from now on.
Replaced(f, k) ==
    IF f.pc \in {"rules", "limit", "select"} /\ f.domain = k
    THEN [f EXCEPT !.stale = TRUE] ELSE f

\* A handler that looks the config up again at every stage.
HeldConfig_lookedUpAgain ==
    IF inflight.domain \in DOMAIN domains THEN domains[inflight.domain]
    ELSE inflight.config

\* proxy.go ServeHTTP, line 724: the local variable config.  The cursor is
\* read through the pointer, which the Config Store shares until it
\* replaces the entry.
HeldConfig ==
    IF inflight.stale \/ inflight.domain \notin DOMAIN domains
    THEN inflight.config
    ELSE [inflight.config EXCEPT
            !.currentBackend = domains[inflight.domain].currentBackend]

(***************************************************************************)
(* Actions.                                                                *)
(***************************************************************************)
\* One HTTP or HTTPS request, from accept to response.
HTTPRequest(req) ==
    LET out == Handle(req)
        limited == ReachedRateLimit(out.stage) /\ out.config.RateLimit.set
        key == IF limited THEN limiterKey(req.client, out.config) ELSE <<>>
    IN  /\ \A k \in DOMAIN out.metrics :
              /\ out.metrics[k].RequestCount <= MaxRecords
              /\ out.metrics[k].ErrorCount <= MaxRecords
        /\ domains' = out.domains
        /\ rateLimits' = out.rateLimits
        /\ metrics' = out.metrics
        /\ last' = [req |-> req, status |-> out.status, stage |-> out.stage,
                    config |-> out.config, backend |-> out.backend,
                    location |-> IF out.stage = "redirect"
                                 THEN RedirectURL(req) ELSE <<>>,
                    records |-> RecordsMade(metrics, out.metrics),
                    key |-> key, limited |-> limited,
                    sameDomains |-> (out.domains = domains),
                    sameLimits |-> (out.rateLimits = rateLimits),
                    sameMetrics |-> (out.metrics = metrics),
                    fresh |-> (loader.pc = "idle" /\ loader.result = "ok"
                               /\ loader.clean)]
        /\ prev' = IF limited
                   THEN <<prev[2], [domain |-> out.config.Domain,
                                    client |-> req.client,
                                    perIP |-> out.config.RateLimit.PerIP,
                                    key |-> key]>>
                   ELSE prev
        /\ selLog' = IF out.backend # NoBackend
                     THEN [selLog EXCEPT ![out.config.Domain] =
                              Truncate(Append(@, out.backend.ID))]
                     ELSE selLog
        /\ admitLog' = IF limited /\ PastRateLimit(out.stage)
                       THEN [x \in (DOMAIN admitLog) \cup {key} |->
                               [t \in 0..MaxTime |->
                                  (IF x \in DOMAIN admitLog
                                   THEN admitLog[x][t] ELSE 0)
                                  + (IF x = key /\ t = now THEN 1 ELSE 0)]]
                       ELSE admitLog
        /\ UNCHANGED <<catalog, probe, rr, flush, proc, inflight, tcp, db, now, loader>>

\* proxy.go ServeHTTP, lines 710-724: the lookup.
ReqLookup(req) ==
    /\ inflight.pc \in {"idle", "done"}
    /\ LET domain == StripPort(req.host) IN
       inflight' =
          IF domain \in DOMAIN domains
          THEN [NoInflight EXCEPT !.pc = "rules", !.req = req,
                                  !.domain = domain, !.config = domains[domain]]
          ELSE [NoInflight EXCEPT !.pc = "done", !.req = req,
                                  !.domain = domain, !.status = 404]
    /\ UNCHANGED <<catalog, probe, rr, flush, proc, tcp, db, domains, rateLimits, metrics, now, loader,
                   last, prev, selLog, admitLog>>

\* proxy.go ServeHTTP, lines 726-730: the IP rules.
ReqRules ==
    /\ inflight.pc = "rules"
    /\ inflight' =
          IF checkIPRules(inflight.req.client, HeldConfig)
          THEN [inflight EXCEPT !.pc = "limit", !.rulesOf = <<HeldConfig.IPRules>>]
          ELSE [inflight EXCEPT !.pc = "done", !.status = 403,
                                !.rulesOf = <<HeldConfig.IPRules>>]
    /\ UNCHANGED <<catalog, probe, rr, flush, proc, tcp, db, domains, rateLimits, metrics, now, loader,
                   last, prev, selLog, admitLog>>

\* proxy.go ServeHTTP, lines 732-736: the rate limit.
ReqLimit ==
    /\ inflight.pc = "limit"
    /\ LET rl == checkRateLimit(rateLimits, inflight.req.client, HeldConfig, now)
       IN  /\ rateLimits' = rl.rateLimits
           /\ inflight' =
                 IF rl.ok
                 THEN [inflight EXCEPT !.pc = "select",
                                       !.limitOf = <<HeldConfig.RateLimit>>]
                 ELSE [inflight EXCEPT !.pc = "done", !.status = 429,
                                       !.limitOf = <<HeldConfig.RateLimit>>]
    /\ UNCHANGED <<catalog, probe, rr, flush, proc, tcp, db, domains, metrics, now, loader, last, prev,
                   selLog, admitLog>>

\* proxy.go ServeHTTP, lines 738-789: selection and the upstream exchange.
ReqSelect ==
    /\ inflight.pc = "select"
    /\ \A k \in DOMAIN metrics : metrics[k].RequestCount < MaxRecords
    /\ LET sel == selectBackend(HeldConfig)
           shared == ~inflight.stale /\ inflight.domain \in DOMAIN domains
       IN  /\ domains' = IF shared
                         THEN [domains EXCEPT
                                 ![inflight.domain].currentBackend = sel.cur]
                         ELSE domains
           /\ metrics' = IF sel.idx = 0 THEN metrics
                         ELSE RecordRequest(metrics, inflight.domain,
                                            inflight.req.up, inflight.req.dur)
           /\ inflight' = [inflight EXCEPT
                             !.pc = "done",
                             !.status = IF sel.idx = 0 THEN 503
                                        ELSE inflight.req.up,
                             !.backendsOf = <<HeldConfig.Backends>>,
                             !.config.currentBackend = sel.cur]
    /\ UNCHANGED <<catalog, probe, rr, flush, proc, tcp, db, rateLimits, now, loader, last, prev,
                   selLog, admitLog>>

\* Time passes.
Tick ==
    /\ now < MaxTime
    /\ now' = now + 1
    /\ UNCHANGED <<catalog, probe, rr, flush, proc, inflight, tcp, db, domains, rateLimits, metrics, loader, last,
                   prev, selLog, admitLog>>

\* loader.go LoadAllDomains, lines 53-65: the domain-list query fails and
\* the cycle returns the error.
LoaderQueryFail ==
    /\ loader.pc = "idle"
    /\ loader' = [pc |-> "idle", rows |-> <<>>, i |-> 1, loaded |-> {},
                  skipped |-> {}, read |-> EmptyMap, start |-> domains, clean |-> FALSE,
                  result |-> "error"]
    /\ last' = [last EXCEPT !.fresh = FALSE]
    /\ UNCHANGED <<catalog, probe, rr, flush, proc, inflight, tcp, db, domains, rateLimits, metrics, now, prev,
                   selLog, admitLog>>

\* loader.go LoadAllDomains, lines 53-68: the domain-list query succeeds.
LoaderQuery ==
    /\ loader.pc = "idle"
    /\ loader' = [pc |-> "rows", rows |-> db, i |-> 1, loaded |-> {},
                  skipped |-> {}, read |-> EmptyMap, start |-> domains, clean |-> TRUE,
                  result |-> "none"]
    /\ last' = [last EXCEPT !.fresh = FALSE]
    /\ UNCHANGED <<catalog, probe, rr, flush, proc, inflight, tcp, db, domains, rateLimits, metrics, now, prev,
                   selLog, admitLog>>

\* main.go, line 50: the load at startup, for the specifications that leave
\* the periodic reloads to SpecSelect, SpecLoader and SpecRate.
StartupLoad == loader.result = "none" /\ LoaderQuery

\* loader.go LoadAllDomains, lines 70-131: one iteration of the row loop.
\* fail names what goes wrong in it: "scan" (rows.Scan, the cycle returns
\* the error), "backends" (the row is skipped), "rules", "limit" or "both"
\* (logged, the config is published without them), or "none".
LoaderRow(fail) ==
    /\ loader.pc = "rows"
    /\ loader.i <= Len(loader.rows)
    /\ LET row == loader.rows[loader.i]
           config == BuildConfig(row, fail \in {"rules", "both"},
                                 fail \in {"limit", "both"})
       IN  CASE fail = "scan" ->
                  /\ loader' = [loader EXCEPT !.pc = "idle", !.clean = FALSE,
                                              !.result = "error"]
                  /\ UNCHANGED <<domains, selLog>>
             [] fail = "backends" ->
                  /\ loader' = [loader EXCEPT
                                  !.i = @ + 1, !.clean = FALSE,
                                  !.skipped = @ \cup {domainKey(row)}]
                  /\ UNCHANGED <<domains, selLog>>
             [] OTHER ->
                  /\ domains' = UpdateDomain(domains, config.Domain, config)
                  /\ selLog' = Store(selLog, config.Domain, <<>>)
                  /\ loader' = [loader EXCEPT
                                  !.i = @ + 1,
                                  !.loaded = @ \cup {config.Domain},
                                  !.read = Store(@, config.Domain,
                                                 DBBackends(row.id)),
                                  !.clean = @ /\ fail = "none"]
    /\ inflight' = IF fail \in {"scan", "backends"} THEN inflight
                   ELSE Replaced(inflight, domainKey(loader.rows[loader.i]))
    /\ UNCHANGED <<catalog, probe, rr, flush, proc, tcp, db, rateLimits, metrics, now, last, prev,
                   admitLog>>

\* loader.go LoadAllDomains, lines 70 and 133-142: rows.Next() returns false,
\* at the end of the list or (cut) on a read error that the loop does not
\* tell apart; the keys not loaded in this cycle are deleted and the cycle
\* returns nil.
LoaderFinish(cut) ==
    /\ loader.pc = "rows"
    /\ IF cut THEN loader.i <= Len(loader.rows)
       ELSE loader.i > Len(loader.rows)
    /\ domains' = RemoveUnloaded(domains, loader.loaded)
    /\ selLog' = RemoveUnloaded(selLog, loader.loaded)
    /\ loader' = [loader EXCEPT !.pc = "idle", !.result = "ok",
                                !.clean = @ /\ ~cut]
    /\ inflight' = IF inflight.domain \in DOMAIN domains
                      /\ inflight.domain \notin loader.loaded
                   THEN Replaced(inflight, inflight.domain) ELSE inflight
    /\ UNCHANGED <<catalog, probe, rr, flush, proc, tcp, db, rateLimits, metrics, now, last, prev,
                   admitLog>>

\* The rows of table content cat whose index is in S.
Rows(cat, S) ==
    SelectSeq([i \in 1..Len(cat) |-> [cat[i] EXCEPT !.listed = i \in S]],
              LAMBDA r : r.listed)

\* The administrator changes the domains table: the rows of the catalog
\* whose index is in S become its content.  Ids are a primary key.  The
\* table is left alone while a Loader cycle reads it.
AdminSet(S) ==
    /\ loader.pc = "idle"
    /\ \A i, j \in S : catalog[i].id = catalog[j].id => i = j
    /\ Rows(catalog, S) # db
    /\ db' = Rows(catalog, S)
    /\ UNCHANGED <<catalog, probe, rr, flush, proc, inflight, tcp, domains, rateLimits, metrics, now, loader, last,
                   prev, selLog, admitLog>>

\* healthcheck checkAllBackends, one iteration of its row loop: backend j of
\* the i-th listed domain, which has health checking enabled and is active,
\* is probed and the outcome of checkBackendHealth is written to its row.
\* An iteration whose Scan, address parse or UPDATE fails writes nothing.
HealthProbe(i, j, status) ==
    /\ i \in 1..Len(db)
    /\ db[i].health_check_enabled
    /\ j \in 1..Len(db[i].backends)
    /\ db[i].backends[j].is_active
    /\ db[i].backends[j].health_status # status
    /\ db' = [db EXCEPT ![i].backends[j].health_status = status]
    /\ UNCHANGED <<catalog, probe, rr, flush, proc, inflight, tcp, domains, rateLimits, metrics, now, loader, last,
                   prev, selLog, admitLog>>

(***************************************************************************)
(* healthcheck checkBackendHealth.  What the network gives an attempt is   *)
(* an Answer: reachable, whether a TCP connection to ip:port can be made,  *)
(* and code, the status code of the response a reachable HTTP server       *)
(* sends, or 0 when the exchange breaks (TLS, timeout, reset).  net/http   *)
(* takes any three-digit status code, so 600 and above reach the caller.   *)
(* probe holds the latest call: the backend's id and scheme, the answers   *)
(* its attempts met, tried (what client.Do returned for each), the status  *)
(* written, and down, the ids of the backends that some attempt so far     *)
(* found unreachable.                                                      *)
(***************************************************************************)
TransportError == 0
StatusCodes == {200, 404, 999}
Answers ==
    {a \in [reachable : BOOLEAN, code : StatusCodes \cup {TransportError}] :
        ~a.reachable => a.code = TransportError}

\* http.Client.Do of a GET to scheme://ip:port/ : the response's status
\* code, or TransportError.  The Transport knows the schemes http and
\* https and fails for any other ("unsupported protocol scheme") before
\* it dials.
Do(scheme, answer) ==
    IF scheme \in {"http", "https"} /\ answer.reachable THEN answer.code
    ELSE TransportError

\* The loop of checkBackendHealth from iteration attempts on, with tried
\* the results of client.Do so far: [status, tried] at its return.
RECURSIVE Attempts_noRetry(_, _, _, _)
Attempts_noRetry(scheme, answers, attempts, tried) ==
    IF attempts >= 2 THEN [status |-> "unhealthy", tried |-> tried]
    ELSE LET code == Do(scheme, answers[attempts + 1])
             seen == Append(tried, code)
         IN  IF code = TransportError
             THEN [status |-> "unhealthy", tried |-> seen]
             ELSE IF code < 600 THEN [status |-> "healthy", tried |-> seen]
             ELSE Attempts_noRetry(scheme, answers, attempts + 1, seen)

RECURSIVE Attempts(_, _, _, _)
Attempts(scheme, answers, attempts, tried) ==
    IF attempts >= 2 THEN [status |-> "unhealthy", tried |-> tried]
    ELSE LET code == Do(scheme, answers[attempts + 1])
             seen == Append(tried, code)
         IN  IF code = TransportError
             THEN IF attempts < 1
                  THEN Attempts(scheme, answers, attempts + 1, seen)
                  ELSE [status |-> "unhealthy", tried |-> seen]
             ELSE IF code < 600 THEN [status |-> "healthy", tried |-> seen]
             ELSE Attempts(scheme, answers, attempts + 1, seen)

checkBackendHealth(scheme, answers) == Attempts(scheme, answers, 0, <<>>)

NoProbe == [id |-> 0, scheme |-> "", answers |-> <<>>, tried |-> <<>>,
            status |-> "", down |-> {}]

\* healthcheck checkAllBackends, one iteration of its row loop for backend
\* j of the i-th listed domain, which has health checking enabled and is
\* active: checkBackendHealth runs against a network that gives answers,
\* and the UPDATE writes its result.
HealthCheck(i, j, answers) ==
    /\ i \in 1..Len(db)
    /\ db[i].health_check_enabled
    /\ j \in 1..Len(db[i].backends)
    /\ db[i].backends[j].is_active
    /\ LET b == db[i].backends[j]
           r == checkBackendHealth(b.scheme, answers)
       IN  /\ db' = [db EXCEPT ![i].backends[j].health_status = r.status]
           /\ probe' = [id |-> b.id, scheme |-> b.scheme,
                        answers |-> SubSeq(answers, 1, Len(r.tried)),
                        tried |-> r.tried, status |-> r.status,
                        down |-> IF \E k \in 1..Len(r.tried) :
                                       ~answers[k].reachable
                                 THEN probe.down \cup {b.id} ELSE probe.down]
    /\ UNCHANGED <<catalog, rr, flush, proc, inflight, tcp, domains,
                   rateLimits, metrics, now, loader, last, prev, selLog,
                   admitLog>>

(***************************************************************************)
(* TCP sessions (proxy.go handleTCPConnection).  tcp holds one session:    *)
(*   pc        "idle", "proxy" (both copy goroutines started) or "closed"  *)
(*   outcome   where the handler of the latest connection returned:        *)
(*             "nodomain", "nobackend", "nottcp", "dialfail", or "proxied" *)
(*   candidate whether the scan found a domain                             *)
(*   c2b, b2c  the position of each copy goroutine: "top" (the select on   *)
(*             ctx.Done), "read" (blocked in Read), "write", "done"        *)
(*   cancelled the session context has been cancelled                      *)
(*   clientConn, backendConn   "open" until the handler closes them        *)
(***************************************************************************)
NoSession == [pc |-> "idle", client |-> "", domain |-> <<>>,
              config |-> NoConfig, backend |-> NoBackend,
              candidate |-> FALSE, outcome |-> "none",
              c2b |-> "done", b2c |-> "done", cancelled |-> FALSE,
              clientConn |-> "closed", backendConn |-> "closed"]

\* proxy.go handleTCPConnection, lines 1104-1127: the domains the scan can
\* stop at.  sync.Map.Range visits the keys in no particular order.
TCPCandidates ==
    {k \in DOMAIN domains :
        \E b \in Range(domains[k].Backends) :
            /\ b.Scheme = "tcp"
            /\ b.IsActive
            /\ (b.HealthStatus = NULL \/ b.HealthStatus = "healthy")}

\* proxy.go handleTCPConnection, lines 1080-1172: a connection is accepted
\* and handled up to the start of the two copy goroutines, or up to the
\* return that drops it.  dialOK: net.Dial to the backend succeeds.
TCPAccept(client, dialOK) ==
    /\ tcp.pc # "proxy"
    /\ \A k \in DOMAIN metrics : metrics[k].TCPCount < MaxRecords
    /\ IF TCPCandidates = {}
       THEN /\ tcp' = [NoSession EXCEPT !.pc = "closed", !.client = client,
                                        !.outcome = "nodomain"]
            /\ UNCHANGED domains
       ELSE \E k \in TCPCandidates :
              LET config == domains[k]
                  sel == selectBackend(config)
                  backend == IF sel.idx = 0 THEN NoBackend
                             ELSE config.Backends[sel.idx]
                  dropped == [NoSession EXCEPT
                                !.pc = "closed", !.client = client,
                                !.domain = k, !.config = config,
                                !.backend = backend, !.candidate = TRUE]
              IN  /\ domains' = [domains EXCEPT ![k].currentBackend = sel.cur]
                  /\ tcp' =
                        IF sel.idx = 0
                        THEN [dropped EXCEPT !.outcome = "nobackend"]
                        ELSE IF backend.Scheme # "tcp"
                        THEN [dropped EXCEPT !.outcome = "nottcp"]
                        ELSE IF ~dialOK
                        THEN [dropped EXCEPT !.outcome = "dialfail"]
                        ELSE [dropped EXCEPT
                                !.pc = "proxy", !.outcome = "proxied",
                                !.c2b = "top", !.b2c = "top",
                                !.clientConn = "open", !.backendConn = "open"]
    /\ UNCHANGED <<catalog, probe, rr, flush, proc, inflight, db, rateLimits, metrics, now, loader, last, prev,
                   selLog, admitLog>>

\* The copy goroutines, lines 1174-1199 (dir = "c2b") and 1202-1227 ("b2c").
\* The select at the top of the loop: return when the context is cancelled
\* (the deferred cancel and wg.Done run), else arm the deadline and Read.
TCPLoopTop(dir) ==
    /\ tcp.pc = "proxy"
    /\ tcp[dir] = "top"
    /\ tcp' = [tcp EXCEPT ![dir] = IF tcp.cancelled THEN "done" ELSE "read"]
    /\ UNCHANGED <<catalog, probe, rr, flush, proc, inflight, db, domains, rateLimits, metrics, now, loader,
                   last, prev, selLog, admitLog>>

\* Read returns: with data, or with EOF or an error (a reset, the 30-second
\* deadline), on which the goroutine returns and its deferred cancel runs.
TCPRead(dir, res) ==
    /\ tcp.pc = "proxy"
    /\ tcp[dir] = "read"
    /\ tcp' = IF res = "data" THEN [tcp EXCEPT ![dir] = "write"]
              ELSE [tcp EXCEPT ![dir] = "done", !.cancelled = TRUE]
    /\ UNCHANGED <<catalog, probe, rr, flush, proc, inflight, db, domains, rateLimits, metrics, now, loader,
                   last, prev, selLog, admitLog>>

\* Write returns: the loop goes round, or on an error the goroutine returns.
TCPWrite(dir, ok) ==
    /\ tcp.pc = "proxy"
    /\ tcp[dir] = "write"
    /\ tcp' = IF ok THEN [tcp EXCEPT ![dir] = "top"]
              ELSE [tcp EXCEPT ![dir] = "done", !.cancelled = TRUE]
    /\ UNCHANGED <<catalog, probe, rr, flush, proc, inflight, db, domains, rateLimits, metrics, now, loader,
                   last, prev, selLog, admitLog>>

\* The states of flush (below) in which its callback is in a store call.
StoreCalls == {"query", "http", "tcp"}

\* The DomainMetrics whose mutex the flush callback holds.
LockedBy(f, domain) == f.pc \in StoreCalls /\ f.domain = domain

\* Lines 1229-1241: wg.Wait returns, the session is recorded (the Lock in
\* RecordTCPRequest returns once no flush callback holds the mutex) and
\* the deferred cancel and Close calls run.
TCPFinish ==
    /\ tcp.pc = "proxy"
    /\ tcp.c2b = "done" /\ tcp.b2c = "done"
    /\ ~LockedBy(flush, tcp.domain)
    /\ metrics' = RecordTCPRequest(metrics, tcp.domain, 1)
    /\ tcp' = [tcp EXCEPT !.pc = "closed", !.cancelled = TRUE,
                          !.clientConn = "closed", !.backendConn = "closed"]
    /\ UNCHANGED <<catalog, probe, rr, flush, proc, inflight, db, domains, rateLimits, now, loader, last, prev,
                   selLog, admitLog>>

(***************************************************************************)
(* The metrics flush (routes.go flush) and the Record calls that meet it.  *)
(* flush holds                                                             *)
(*   pc      "idle" (periodicFlush waits in its select), "range" (between  *)
(*           two callbacks of metrics.Range), "query" (in QueryRow),       *)
(*           "http" (at the request_metrics insert) or "tcp" (at the       *)
(*           tcp_metrics insert); in the last three the callback holds     *)
(*           the mutex of the DomainMetrics of flush.domain                *)
(*   todo    the keys Range has still to visit                             *)
(*   domain, id   the callback's key and the id QueryRow returned          *)
(*   rows    the rows appended to request_metrics and tcp_metrics          *)
(*   rec     a Record call that waits in metrics.mu.Lock(), or NoCall      *)
(* m.db is set by SetDB at startup (main.go), so flush never returns at    *)
(* its nil check.                                                          *)
(***************************************************************************)
NoCall == [kind |-> "none", domain |-> <<>>, statusCode |-> 0]
NoFlush == [pc |-> "idle", todo |-> {}, domain |-> <<>>, id |-> 0,
            rows |-> <<>>, rec |-> NoCall]

\* routes.go RecordRequest, RecordError, RecordTCPRequest past their Lock.
Record(m, call) ==
    CASE call.kind = "http" -> RecordRequest(m, call.domain, call.statusCode, 1)
      [] call.kind = "error" -> RecordError(m, call.domain)
      [] call.kind = "tcp" -> RecordTCPRequest(m, call.domain, 1)

\* The pipeline calls RecordRequest, RecordError or RecordTCPRequest: the
\* call returns at once when the mutex is free and waits in Lock otherwise.
RecordCall(kind, domain, statusCode) ==
    LET call == [kind |-> kind, domain |-> domain, statusCode |-> statusCode]
    IN  /\ flush.rec = NoCall
        /\ statusCode = 0 <=> kind # "http"
        /\ SumOver(metrics, "RequestCount") + SumOver(metrics, "ErrorCount")
              + SumOver(metrics, "TCPCount") < MaxRecords
        /\ IF LockedBy(flush, domain)
           THEN /\ flush' = [flush EXCEPT !.rec = call]
                /\ metrics' = LoadOrStore(metrics, domain, NewDomainMetrics)
           ELSE /\ metrics' = Record(metrics, call)
                /\ UNCHANGED flush
        /\ UNCHANGED <<catalog, probe, rr, proc, inflight, tcp, db, domains, rateLimits,
                       now, loader, last, prev, selLog, admitLog>>

\* The waiting Record call gets the mutex after the callback returned.
RecordResume ==
    /\ flush.rec # NoCall
    /\ ~LockedBy(flush, flush.rec.domain)
    /\ metrics' = Record(metrics, flush.rec)
    /\ flush' = [flush EXCEPT !.rec = NoCall]
    /\ UNCHANGED <<catalog, probe, rr, proc, inflight, tcp, db, domains, rateLimits,
                   now, loader, last, prev, selLog, admitLog>>

\* periodicFlush: the ticker fires and flush begins its Range.
FlushBegin ==
    /\ flush.pc = "idle"
    /\ Len(flush.rows) < MaxRows
    /\ flush' = [flush EXCEPT !.pc = "range", !.todo = DOMAIN metrics]
    /\ UNCHANGED <<catalog, probe, rr, proc, inflight, tcp, db, domains, rateLimits,
                   metrics, now, loader, last, prev, selLog, admitLog>>

\* flush, the callback up to QueryRow: it locks the DomainMetrics of key k,
\* returns when the window is empty and else goes on to the store.
FlushLock(k) ==
    /\ flush.pc = "range"
    /\ k \in flush.todo
    /\ flush' = IF metrics[k].RequestCount = 0 /\ metrics[k].TCPCount = 0
                THEN [flush EXCEPT !.todo = @ \ {k}]
                ELSE [flush EXCEPT !.todo = @ \ {k}, !.pc = "query",
                                   !.domain = k]
    /\ UNCHANGED <<catalog, probe, rr, proc, inflight, tcp, db, domains, rateLimits,
                   metrics, now, loader, last, prev, selLog, admitLog>>

\* flush, SELECT id FROM domains WHERE target_url = $1: with no row, or
\* with an error, the callback returns and leaves the window as it is.
FlushQuery(fail) ==
    /\ flush.pc = "query"
    /\ LET hits == {i \in 1..Len(db) : db[i].target_url = flush.domain}
       IN  IF fail \/ hits = {}
           THEN flush' = [flush EXCEPT !.pc = "range", !.domain = <<>>]
           ELSE \E i \in hits :
                   flush' = [flush EXCEPT !.pc = "http", !.id = db[i].id]
    /\ UNCHANGED <<catalog, probe, rr, proc, inflight, tcp, db, domains, rateLimits,
                   metrics, now, loader, last, prev, selLog, admitLog>>

\* flush, INSERT INTO request_metrics when the window holds requests; a
\* failed Exec is logged and the callback goes on.
FlushInsertHTTP(ok) ==
    /\ flush.pc = "http"
    /\ LET w == metrics[flush.domain]
       IN  flush' = [flush EXCEPT
              !.pc = "tcp",
              !.rows = IF w.RequestCount > 0 /\ ok
                       THEN Append(@, [table |-> "request_metrics",
                                       domain_id |-> flush.id,
                                       request_count |-> w.RequestCount,
                                       error_count |-> w.ErrorCount])
                       ELSE @]
    /\ UNCHANGED <<catalog, probe, rr, proc, inflight, tcp, db, domains, rateLimits,
                   metrics, now, loader, last, prev, selLog, admitLog>>

\* flush, INSERT INTO tcp_metrics when the window holds sessions, then the
\* reset of the window and the deferred Unlock.
FlushInsertTCP(ok) ==
    /\ flush.pc = "tcp"
    /\ LET w == metrics[flush.domain]
       IN  flush' = [flush EXCEPT
              !.pc = "range", !.domain = <<>>, !.id = 0,
              !.rows = IF w.TCPCount > 0 /\ ok
                       THEN Append(@, [table |-> "tcp_metrics",
                                       domain_id |-> flush.id,
                                       request_count |-> w.TCPCount,
                                       error_count |-> 0])
                       ELSE @]
    /\ metrics' = [metrics EXCEPT ![flush.domain] = NewDomainMetrics]
    /\ UNCHANGED <<catalog, probe, rr, proc, inflight, tcp, db, domains, rateLimits,
                   now, loader, last, prev, selLog, admitLog>>

\* flush returns when Range has visited every key.
FlushEnd ==
    /\ flush.pc = "range"
    /\ flush.todo = {}
    /\ flush' = [flush EXCEPT !.pc = "idle"]
    /\ UNCHANGED <<catalog, probe, rr, proc, inflight, tcp, db, domains, rateLimits,
                   metrics, now, loader, last, prev, selLog, admitLog>>

(***************************************************************************)
(* The goroutines of main (main.go) around shutdown.  proc holds           *)
(*   signal      SIGINT or SIGTERM has been delivered to the stop channel  *)
(*   ctx         the context main passes to Loader.Start and to the        *)
(*               Health Checker: "live" or "cancelled"                     *)
(*   stopChan    the Health Checker's stop channel: "open" or "closed"     *)
(*   loaderLoop  Loader.Start: "select" (its for-select, or a cycle that   *)
(*               loader.pc tells) or "returned"                            *)
(*   healthLoop  the Checker goroutine: "select", "cycle", "returned"      *)
(*   sd          the signal-handling goroutine: "wait", "cancel", "stop",  *)
(*               "stopwait", "shutdown", "done1", "done2", "end"           *)
(*   admin       the admin-server goroutine: "serving", "closed" (its      *)
(*               ListenAndServe returned) or "done" (its deferred Done ran)*)
(*   wg          the counter of main's WaitGroup                           *)
(*   exit        "running", "exited" (main returned) or "panicked"         *)
(* periodicFlush is in its select exactly when flush.pc = "idle".          *)
(***************************************************************************)
Started == [signal |-> FALSE, ctx |-> "live", stopChan |-> "open",
            loaderLoop |-> "select", healthLoop |-> "select", sd |-> "wait",
            admin |-> "serving", wg |-> 2, exit |-> "running"]

\* No goroutine takes a step after main returned or a goroutine panicked.
Running == proc.exit = "running"

\* sync.WaitGroup.Done: the counter after it, and the panic of a negative
\* counter, which ends the process.
Done(p) == [p EXCEPT !.wg = @ - 1,
                     !.exit = IF p.wg - 1 < 0 THEN "panicked" ELSE @]

\* main.go, signal.Notify: the process receives SIGINT or SIGTERM.
Signal ==
    /\ Running
    /\ ~proc.signal
    /\ proc' = [proc EXCEPT !.signal = TRUE]
    /\ UNCHANGED <<catalog, probe, rr, flush, inflight, tcp, db, domains, rateLimits,
                   metrics, now, loader, last, prev, selLog, admitLog>>

\* main.go, the signal-handling goroutine, one statement at a time:
\* <-stop and cancel(); close(stopChan); the Checker's wg.Wait(); the admin
\* server's Shutdown, at which its ListenAndServe returns; Done; Done.
Shutdown ==
    /\ Running
    /\ CASE proc.sd = "wait" ->
              /\ proc.signal
              /\ proc' = [proc EXCEPT !.ctx = "cancelled", !.sd = "stop"]
         [] proc.sd = "stop" ->
              proc' = [proc EXCEPT !.stopChan = "closed", !.sd = "stopwait"]
         [] proc.sd = "stopwait" ->
              /\ proc.healthLoop = "returned"
              /\ proc' = [proc EXCEPT !.sd = "shutdown"]
         [] proc.sd = "shutdown" ->
              proc' = [proc EXCEPT !.admin = "closed", !.sd = "done1"]
         [] proc.sd = "done1" -> proc' = [Done(proc) EXCEPT !.sd = "done2"]
         [] proc.sd = "done2" -> proc' = [Done(proc) EXCEPT !.sd = "end"]
         [] OTHER -> FALSE
    /\ UNCHANGED <<catalog, probe, rr, flush, inflight, tcp, db, domains, rateLimits,
                   metrics, now, loader, last, prev, selLog, admitLog>>

\* main.go, the admin-server goroutine: ListenAndServe has returned and the
\* deferred wg.Done() runs.
AdminDone ==
    /\ Running
    /\ proc.admin = "closed"
    /\ proc' = [Done(proc) EXCEPT !.admin = "done"]
    /\ UNCHANGED <<catalog, probe, rr, flush, inflight, tcp, db, domains, rateLimits,
                   metrics, now, loader, last, prev, selLog, admitLog>>

\* main.go: wg.Wait() returns at counter zero and main returns.
MainReturn ==
    /\ Running
    /\ proc.wg = 0
    /\ proc' = [proc EXCEPT !.exit = "exited"]
    /\ UNCHANGED <<catalog, probe, rr, flush, inflight, tcp, db, domains, rateLimits,
                   metrics, now, loader, last, prev, selLog, admitLog>>

\* Loader.Start: the select takes the ticker and a cycle begins.
LoaderTick ==
    /\ Running
    /\ proc.loaderLoop = "select"
    /\ LoaderQuery \/ LoaderQueryFail

\* Loader.Start: the select takes ctx.Done() and the loop returns.
LoaderReturn ==
    /\ Running
    /\ proc.loaderLoop = "select" /\ loader.pc = "idle"
    /\ proc.ctx = "cancelled"
    /\ proc' = [proc EXCEPT !.loaderLoop = "returned"]
    /\ UNCHANGED <<catalog, probe, rr, flush, inflight, tcp, db, domains, rateLimits,
                   metrics, now, loader, last, prev, selLog, admitLog>>

\* Checker.Start: the select takes the ticker and checkAllBackends begins.
HealthTick ==
    /\ Running
    /\ proc.healthLoop = "select"
    /\ proc' = [proc EXCEPT !.healthLoop = "cycle"]
    /\ UNCHANGED <<catalog, probe, rr, flush, inflight, tcp, db, domains, rateLimits,
                   metrics, now, loader, last, prev, selLog, admitLog>>

\* checkAllBackends returns; under a cancelled context its queries fail
\* and it writes nothing.
HealthCycleEnd ==
    /\ Running
    /\ proc.healthLoop = "cycle"
    /\ proc' = [proc EXCEPT !.healthLoop = "select"]
    /\ UNCHANGED <<catalog, probe, rr, flush, inflight, tcp, db, domains, rateLimits,
                   metrics, now, loader, last, prev, selLog, admitLog>>

\* Checker.Start: the select takes ctx.Done() or stopChan and the goroutine
\* returns, which its deferred Done tells Stop.
HealthReturn ==
    /\ Running
    /\ proc.healthLoop = "select"
    /\ proc.ctx = "cancelled" \/ proc.stopChan = "closed"
    /\ proc' = [proc EXCEPT !.healthLoop = "returned"]
    /\ UNCHANGED <<catalog, probe, rr, flush, inflight, tcp, db, domains, rateLimits,
                   metrics, now, loader, last, prev, selLog, admitLog>>

(***************************************************************************)
(* selectBackend statement by statement (proxy.go 836-854), for calls that *)
(* run at once on the DomainConfig stored under SelKey.  rr holds         *)
(*   mu    config.mu: 0 when free, else the goroutine that holds it        *)
(*   g     per goroutine: pc "idle", "lock" (in mu.Lock), "loop" (at the   *)
(*         loop condition), "write" (currentBackend read into tmp, not yet *)
(*         written), "unlock" (at return) or "done"; i, the iterations     *)
(*         done; tmp; idx, the 1-based index returned, 0 for nil           *)
(*   c0    the cursor when the first call of the batch began               *)
(*   contended   two calls have been in mu.Lock at the same time           *)
(***************************************************************************)
SelKey == <<"a.example">>
Selectors == 1..MaxSelectors
NoSelections ==
    [mu |-> 0,
     g |-> [x \in Selectors |-> [pc |-> "idle", i |-> 0, tmp |-> 0, idx |-> 0]],
     c0 |-> 0, contended |-> FALSE]

\* A mutex that lets everyone in.
LockFree_always(mu) == TRUE

\* sync.Mutex.Lock returns when nobody holds the mutex.
LockFree(mu) == mu = 0

\* A goroutine calls selectBackend and arrives at config.mu.Lock().
SelCall(x) ==
    /\ SelKey \in DOMAIN domains
    /\ loader.pc = "idle"
    /\ rr.g[x].pc = "idle"
    /\ rr' = [rr EXCEPT
          !.g[x].pc = "lock",
          !.c0 = IF \A y \in Selectors : rr.g[y].pc = "idle"
                 THEN domains[SelKey].currentBackend ELSE @]
    /\ UNCHANGED <<catalog, probe, flush, proc, inflight, tcp, db, domains,
                   rateLimits, metrics, now, loader, last, prev, selLog,
                   admitLog>>

\* selectBackend, lines 837-842: Lock returns; an empty list returns nil.
SelLock(x) ==
    /\ rr.g[x].pc = "lock"
    /\ LockFree(rr.mu)
    /\ rr' = [rr EXCEPT
          !.mu = x,
          !.contended = @ \/ \E y \in Selectors \ {x} : rr.g[y].pc = "lock",
          !.g[x] = IF Len(domains[SelKey].Backends) = 0
                   THEN [@ EXCEPT !.pc = "unlock", !.idx = 0]
                   ELSE [@ EXCEPT !.pc = "loop", !.i = 0]]
    /\ UNCHANGED <<catalog, probe, flush, proc, inflight, tcp, db, domains,
                   rateLimits, metrics, now, loader, last, prev, selLog,
                   admitLog>>

\* selectBackend, lines 845-846: the loop condition, and the read of
\* config.currentBackend on the right of the assignment.
SelRead(x) ==
    /\ rr.g[x].pc = "loop"
    /\ rr' = [rr EXCEPT
          !.g[x] = IF rr.g[x].i >= Len(domains[SelKey].Backends)
                   THEN [@ EXCEPT !.pc = "unlock", !.idx = 0]
                   ELSE [@ EXCEPT !.pc = "write",
                                  !.tmp = domains[SelKey].currentBackend]]
    /\ UNCHANGED <<catalog, probe, flush, proc, inflight, tcp, db, domains,
                   rateLimits, metrics, now, loader, last, prev, selLog,
                   admitLog>>

\* selectBackend, lines 846-851: the write of config.currentBackend and the
\* test of the backend it points at.
SelWrite(x) ==
    /\ rr.g[x].pc = "write"
    /\ LET backends == domains[SelKey].Backends
           c == (rr.g[x].tmp + 1) % Len(backends)
       IN  /\ domains' = [domains EXCEPT ![SelKey].currentBackend = c]
           /\ rr' = [rr EXCEPT
                 !.g[x] = IF Selectable(backends[c + 1])
                          THEN [@ EXCEPT !.pc = "unlock", !.idx = c + 1]
                          ELSE [@ EXCEPT !.pc = "loop", !.i = @ + 1]]
    /\ UNCHANGED <<catalog, probe, flush, proc, inflight, tcp, db, rateLimits,
                   metrics, now, loader, last, prev, selLog, admitLog>>

\* selectBackend returns and the deferred Unlock runs.
SelUnlock(x) ==
    /\ rr.g[x].pc = "unlock"
    /\ rr' = [rr EXCEPT !.mu = 0, !.g[x].pc = "done"]
    /\ UNCHANGED <<catalog, probe, flush, proc, inflight, tcp, db, domains,
                   rateLimits, metrics, now, loader, last, prev, selLog,
                   admitLog>>

\* Every call of the batch has returned; the goroutines may call again.
SelReset ==
    /\ \A x \in Selectors : rr.g[x].pc = "done"
    /\ rr' = [rr EXCEPT
          !.g = [x \in Selectors |-> [pc |-> "idle", i |-> 0, tmp |-> 0,
                                      idx |-> 0]],
          !.contended = FALSE]
    /\ UNCHANGED <<catalog, probe, flush, proc, inflight, tcp, db, domains,
                   rateLimits, metrics, now, loader, last, prev, selLog,
                   admitLog>>

(***************************************************************************)
(* Rows and requests the specifications are built from.                    *)
(***************************************************************************)
BackendRow(id, scheme, ip, weight, active, health) ==
    [id |-> id, scheme |-> scheme, ip |-> ip, port |-> 8080,
     weight |-> weight, is_active |-> active, health_status |-> health]

LimitRow(rps, burst, perIP) ==
    [requests_per_second |-> rps, burst_size |-> burst, per_ip |-> perIP,
     present |-> TRUE]

DomainRow(id, name, url, ssl, backends, rules, limit) ==
    [id |-> id, name |-> name, target_url |-> url, ssl_enabled |-> ssl,
     health_check_enabled |-> FALSE, backends |-> backends, rules |-> rules,
     limit |-> limit, listed |-> TRUE]

\* The state after NewProxyServer, NewMetricsCollector and NewLoader, with
\* table content cat.
InitWithDB(cat, S) ==
    /\ catalog = cat
    /\ db = Rows(cat, S)
    /\ domains = EmptyMap
    /\ rateLimits = EmptyMap
    /\ metrics = EmptyMap
    /\ now = 0
    /\ loader = [pc |-> "idle", rows |-> <<>>, i |-> 1, loaded |-> {},
                 skipped |-> {}, read |-> EmptyMap, start |-> EmptyMap, clean |-> TRUE,
                 result |-> "none"]
    /\ last = NoLast
    /\ prev = <<NoLimited, NoLimited>>
    /\ selLog = EmptyMap
    /\ admitLog = EmptyMap
    /\ tcp = NoSession
    /\ inflight = NoInflight
    /\ flush = NoFlush
    /\ proc = Started
    /\ rr = NoSelections
    /\ probe = NoProbe

InitWith(cat) == InitWithDB(cat, 1..Len(cat))

HostA == <<"a.example">>
HostB == <<"b.example">>
HealthyBackend(id) == BackendRow(id, "http", "10.1.0.1", 1, TRUE, "healthy")

(***************************************************************************)
(* SpecRules: one domain whose IP-rule list ranges over every list of at   *)
(* most MaxRules rules; requests from every client address.                *)
(***************************************************************************)
Networks == {[base |-> b, bits |-> n] : b \in Addrs, n \in 0..AddrBits}
RuleUniverse == {[ip_range |-> c, rule_type |-> t] :
                    c \in {c \in Networks : Mask(c.base, c.bits) = c.base},
                    t \in {"whitelist", "blacklist"}}
RuleSeqs == UNION {[1..n -> RuleUniverse] : n \in 0..MaxRules}

InitRules ==
    \E rules \in RuleSeqs :
        InitWith(<<DomainRow(1, <<"a">>, HostA, FALSE, <<HealthyBackend(1)>>,
                             rules, NoRow)>>)

NextRules ==
    \/ StartupLoad
    \/ LoaderRow("none")
    \/ LoaderFinish(FALSE)
    \/ \E c \in ClientHosts : HTTPRequest(Req(443, HostA, c, "none", 200))

SpecRules == InitRules /\ [][NextRules]_vars

\* C1: a request with a parsable client address passes the IP-rule stage
\* exactly when the first rule, in list order, whose range contains the
\* address is a whitelist rule, or no rule contains it; a request that does
\* not pass is answered 403 and touches no limiter, cursor, backend or
\* metrics.
FirstContaining(rules, ip) ==
    {i \in 1..Len(rules) :
        /\ Contains(rules[i].IPRange, ip)
        /\ \A j \in 1..(i - 1) : ~Contains(rules[j].IPRange, ip)}
AdmittedByRules(rules, ip) ==
    \/ \A i \in 1..Len(rules) : ~Contains(rules[i].IPRange, ip)
    \/ \E i \in FirstContaining(rules, ip) : rules[i].RuleType = "whitelist"
ReachedIPRules(l) == l.stage \in {"iprules", "ratelimit", "select", "upstream"}
C1_FirstMatchDecides ==
    (ReachedIPRules(last) /\ ParseIP(last.req.client) # NoIP) =>
        /\ (last.stage # "iprules") <=>
              AdmittedByRules(last.config.IPRules, ParseIP(last.req.client))
        /\ (last.stage = "iprules") =>
              /\ last.status = 403
              /\ last.backend = NoBackend
              /\ last.records = 0
              /\ last.sameDomains /\ last.sameLimits /\ last.sameMetrics

\* A blacklist rule that comes after a whitelist rule containing the same
\* address did not stop the request.
C1_Witness ==
    /\ last.stage = "upstream"
    /\ \E i, j \in 1..Len(last.config.IPRules) :
          /\ i < j
          /\ last.config.IPRules[i].RuleType = "whitelist"
          /\ last.config.IPRules[j].RuleType = "blacklist"
          /\ Contains(last.config.IPRules[i].IPRange, ParseIP(last.req.client))
          /\ Contains(last.config.IPRules[j].IPRange, ParseIP(last.req.client))
          /\ i \in FirstContaining(last.config.IPRules, ParseIP(last.req.client))

(***************************************************************************)
(* SpecSelect: one domain whose backend list ranges over every list of at  *)
(* most MaxBackends backends, each active or not, healthy, unhealthy or    *)
(* never probed, of weight 1..MaxWeight.                                   *)
(***************************************************************************)
Client0 == IPString(0)
BackendChoices == [active : BOOLEAN, health : {"healthy", "unhealthy", NULL},
                   weight : 1..MaxWeight]
BackendSeqs ==
    UNION {{[i \in 1..n |-> BackendRow(i, "http", "10.1.0.1", c[i].weight,
                                       c[i].active, c[i].health)] :
               c \in [1..n -> BackendChoices]} : n \in 0..MaxBackends}

InitSelect ==
    \E bs \in BackendSeqs :
        InitWith(<<DomainRow(1, <<"a">>, HostA, FALSE, bs, <<>>, NoRow)>>)

NextSelect ==
    \/ LoaderQuery
    \/ LoaderRow("none")
    \/ LoaderFinish(FALSE)
    \/ HTTPRequest(Req(443, HostA, Client0, "none", 200))

SpecSelect == InitSelect /\ [][NextSelect]_vars

\* C2: a backend returned by selection is a backend of the config that is
\* active and healthy or never probed; selection returns none, and the
\* request is answered 503 without any upstream being contacted, exactly
\* when no backend of the config is active and healthy or never probed.
Passes(b) == b.IsActive /\ b.HealthStatus \in {"healthy", NULL}
ReachedSelect(l) == l.stage \in {"select", "upstream"}
C2_SelectsOnlySelectable ==
    ReachedSelect(last) =>
        /\ (last.backend # NoBackend) =>
              /\ last.backend \in Range(last.config.Backends)
              /\ Passes(last.backend)
        /\ (last.status = 503) <=>
              (\A b \in Range(last.config.Backends) : ~Passes(b))
        /\ (last.status = 503) <=> (last.backend = NoBackend)
        /\ (last.status = 503) => (last.records = 0 /\ last.stage = "select")

\* Selection stepped over a backend that does not pass and returned one
\* that does.
C2_Witness ==
    /\ last.stage = "upstream"
    /\ Passes(last.backend)
    /\ \E b \in Range(last.config.Backends) : ~Passes(b)

\* C3: for a config whose backends are all active and healthy, the latest
\* (sum of weights) selections made since the config was published hold
\* each backend exactly weight-many times.
RECURSIVE SumWeights(_)
SumWeights(bs) == IF bs = <<>> THEN 0 ELSE Head(bs).Weight + SumWeights(Tail(bs))
LastN(s, n) == SubSeq(s, Len(s) - n + 1, Len(s))
Count(s, x) == Cardinality({i \in 1..Len(s) : s[i] = x})
C3_WeightedWindow ==
    \A k \in DOMAIN domains :
        LET bs == domains[k].Backends
            w == SumWeights(bs)
        IN  (/\ \A b \in Range(bs) : b.IsActive /\ b.HealthStatus = "healthy"
             /\ w <= MaxWindow
             /\ Len(selLog[k]) >= w)
            => \A b \in Range(bs) : Count(LastN(selLog[k], w), b.ID) = b.Weight

(***************************************************************************)
(* SpecLoader: a domains table whose rows come and go and change between   *)
(* Loader cycles, with every failure a cycle can meet.  Rows 1 and 2 are   *)
(* two versions of the same domain.                                        *)
(***************************************************************************)
LoaderCatalog ==
    <<DomainRow(1, <<"a">>, HostA, FALSE, <<HealthyBackend(1)>>, <<>>, NoRow),
      DomainRow(1, <<"a">>, HostA, FALSE,
                <<BackendRow(1, "http", "10.1.0.1", 1, TRUE, "unhealthy")>>,
                <<[ip_range |-> [base |-> 0, bits |-> 0],
                   rule_type |-> "blacklist"]>>, NoRow),
      DomainRow(2, <<"b">>, HostB, TRUE, <<HealthyBackend(2)>>, <<>>, NoRow)>>

InitLoader == InitWithDB(LoaderCatalog, {1, 3})

Failures == {"none", "scan", "backends", "rules", "limit", "both"}

NextLoader ==
    \/ LoaderQueryFail
    \/ LoaderQuery
    \/ \E fail \in Failures : LoaderRow(fail)
    \/ \E cut \in BOOLEAN : LoaderFinish(cut)
    \/ \E S \in SUBSET (1..Len(catalog)) : AdminSet(S)
    \/ HTTPRequest(Req(443, HostA, Client0, "none", 200))

SpecLoader == InitLoader /\ [][NextLoader]_vars

\* A config without its cursor, which belongs to the pipeline.
StripCursor(config) == [config EXCEPT !.currentBackend = 0]
StripCursors(m) == [k \in DOMAIN m |-> StripCursor(m[k])]

\* The config the store's rows describe for routing key k: that of the last
\* listed row with this key.
ListedKeys(rows) == {domainKey(rows[i]) : i \in 1..Len(rows)}
LastRowOf(rows, k) ==
    rows[CHOOSE i \in 1..Len(rows) :
            /\ domainKey(rows[i]) = k
            /\ \A j \in (i + 1)..Len(rows) : domainKey(rows[j]) # k]
ConfigOfRow(row) ==
    [Domain |-> domainKey(row), SSLEnabled |-> row.ssl_enabled,
     HealthCheckEnabled |-> row.health_check_enabled,
     Backends |-> loadBackends(row.backends),
     IPRules |-> loadIPRules(row.rules),
     RateLimit |-> loadRateLimit(row.limit),
     currentBackend |-> 0]

\* C5: after a Loader cycle in which nothing failed, the Config Store holds
\* exactly the routing keys the cycle listed, each with the config built
\* from its row; a request served before the next cycle begins finds that
\* config under a listed key and is answered 404 under any other key.
CycleSucceeded == loader.pc = "idle" /\ loader.result = "ok" /\ loader.clean
C5_PublishVisible ==
    CycleSucceeded =>
        /\ DOMAIN domains = ListedKeys(loader.rows)
        /\ \A k \in DOMAIN domains :
              StripCursor(domains[k]) = ConfigOfRow(LastRowOf(loader.rows, k))
        /\ (last.fresh /\ last.req.acme = "none") =>
              IF StripPort(last.req.host) \in ListedKeys(loader.rows)
              THEN StripCursor(last.config) =
                      ConfigOfRow(LastRowOf(loader.rows, StripPort(last.req.host)))
              ELSE last.status = 404 /\ last.stage = "lookup"

\* A domain that the store held was dropped from the list; the cycle after
\* that removed it and a request for it was answered 404.
C5_Witness ==
    /\ CycleSucceeded
    /\ HostA \in DOMAIN loader.start
    /\ HostA \notin DOMAIN domains
    /\ HostB \in DOMAIN domains
    /\ last.fresh /\ last.req.host = HostA /\ last.status = 404

\* C6: a domain whose backend load failed in a cycle, and which the store
\* held when the cycle began, is still held with the same config when the
\* cycle has ended.
C6_SkippedDomainKept ==
    (loader.pc = "idle" /\ loader.result = "ok") =>
        \A k \in loader.skipped \cap DOMAIN loader.start :
            /\ k \in DOMAIN domains
            /\ StripCursor(domains[k]) = StripCursor(loader.start[k])

\* C7: a cycle that returned an error left the Config Store as it found it.
C7_AbortLeavesStore ==
    (loader.pc = "idle" /\ loader.result = "error") =>
        StripCursors(domains) = StripCursors(loader.start)

(***************************************************************************)
(* SpecPipeline: three domains that between them produce every response    *)
(* the proxy originates, requested on both listeners.                      *)
(*   a.example  plain HTTP, address 1 blacklisted, one token per second    *)
(*   b.example  SSL enabled, address 1 blacklisted, one token per second   *)
(*   c.example  plain HTTP, its only backend probed unhealthy              *)
(***************************************************************************)
HostC == <<"c.example">>
HostD == <<"d.example">>
Client1 == IPString(1)
BlockClient1 == [ip_range |-> [base |-> 1, bits |-> AddrBits],
                 rule_type |-> "blacklist"]
PipelineCatalog ==
    <<DomainRow(1, <<"a">>, HostA, FALSE, <<HealthyBackend(1)>>,
                <<BlockClient1>>, LimitRow(1, 1, FALSE)),
      DomainRow(2, <<"b">>, HostB, TRUE, <<HealthyBackend(2)>>,
                <<BlockClient1>>, LimitRow(1, 1, FALSE)),
      DomainRow(3, <<"c">>, HostC, FALSE,
                <<BackendRow(3, "http", "10.1.0.3", 1, TRUE, "unhealthy")>>,
                <<>>, NoRow)>>

PipelineRequests ==
    {Req(port, host, client, "none", 200) :
        port \in {80, 443}, host \in {HostA, HostB, HostC, HostD},
        client \in {Client0, Client1}}
    \cup {Req(port, host, Client0, "none", up) :
            port \in {80, 443}, host \in {HostA, HostB}, up \in {500, 0}}
    \cup {Req(80, HostB \o <<":80">>, Client0, "none", 200)}
    \cup {Req(port, HostB, Client0, acme, 200) :
            port \in {80, 443}, acme \in {"served", "notfound"}}

InitPipeline == InitWith(PipelineCatalog)

NextPipeline ==
    \/ StartupLoad
    \/ LoaderRow("none")
    \/ LoaderFinish(FALSE)
    \/ \E req \in PipelineRequests : HTTPRequest(req)

SpecPipeline == InitPipeline /\ [][NextPipeline]_vars

\* C4: every request that entered ServeHTTP and was not an ACME challenge
\* made exactly one RecordRequest or RecordError call.
EnteredServeHTTP(l) ==
    /\ l.stage \notin {"none", "acme", "redirect"}
    /\ l.req.port = 80 => l.stage # "lookup"
C4_OneRecordPerRequest ==
    EnteredServeHTTP(last) => last.records = 1

\* C10: a port-80 request outside the ACME path whose host has a config
\* with SSL enabled is answered 307 with the request URL under https and
\* changes no config, no limiter and no metrics and reaches no backend; when
\* the config has SSL disabled the request runs through the pipeline stages.
MatchedOnPort80(l) ==
    l.req.port = 80 /\ l.req.acme = "none" /\ l.config # NoConfig
RateCatalog ==
    <<DomainRow(1, <<"a">>, HostA, FALSE, <<HealthyBackend(1)>>, <<>>,
                LimitRow(1, 1, TRUE))>>

InitRate == InitWith(RateCatalog)

NextRate ==
    \/ Tick
    \/ LoaderQuery
    \/ LoaderRow("none")
    \/ LoaderFinish(FALSE)
    \/ \E S \in SUBSET (1..Len(catalog)) : AdminSet(S)
    \/ \E up \in {200, 0} : HTTPRequest(Req(443, HostA, Client0, "none", up))

SpecRate == InitRate /\ [][NextRate]_vars

\* The limiter keys the config built from a row can use.
KeysOfRow(row) ==
    IF row.limit.per_ip
    THEN {Sprintf(domainKey(row), h) : h \in ClientHosts}
    ELSE {domainKey(row)}
Admitted(k, t0, t1) ==
    LET RECURSIVE Sum(_)
        Sum(t) == IF t > t1 THEN 0 ELSE admitLog[k][t] + Sum(t + 1)
    IN  Sum(t0)
CeilDiv(a, b) == (a + b - 1) \div b

\* C8: for a limiter key of a domain limited to r requests per second with
\* burst b, the requests admitted past the rate-limit stage between any two
\* instants T seconds apart number at most b + ceil(r * T), whatever Loader
\* cycles ran in between.
C8_WindowBound ==
    \A row \in Range(catalog) : \A k \in KeysOfRow(row) \cap DOMAIN admitLog :
        \A t0 \in 0..MaxTime : \A t1 \in t0..MaxTime :
            Admitted(k, t0, t1) <=
                row.limit.burst_size
                + CeilDiv(row.limit.requests_per_second * (t1 - t0), TicksPerSec)

\* A request was refused with 429 by a limiter that had admitted two
\* requests before a Loader cycle published the domain again.
C8_Witness ==
    /\ last.status = 429
    /\ last.fresh
    /\ last.key \in DOMAIN admitLog
    /\ Admitted(last.key, 0, MaxTime) >= 2
    /\ selLog[HostA] = <<>>

(***************************************************************************)
(* SpecKeys: a domain limited per client address, a domain limited as a    *)
(* whole whose routing key reads like the first one's key for a client,    *)
(* and a third domain limited as a whole.                                  *)
(***************************************************************************)
HostA0 == Sprintf(HostA, Client0)
KeysCatalog ==
    <<DomainRow(1, <<"a">>, HostA, FALSE, <<HealthyBackend(1)>>, <<>>,
                LimitRow(1, 2, TRUE)),
      DomainRow(2, <<"a0">>, HostA0, FALSE, <<HealthyBackend(2)>>, <<>>,
                LimitRow(1, 2, FALSE)),
      DomainRow(3, <<"b">>, HostB, FALSE, <<HealthyBackend(3)>>, <<>>,
                LimitRow(1, 2, FALSE))>>

InitKeys == InitWith(KeysCatalog)

NextKeys ==
    \/ StartupLoad
    \/ LoaderRow("none")
    \/ LoaderFinish(FALSE)
    \/ \E host \in {HostA, HostA0, HostB}, client \in {Client0, Client1} :
          HTTPRequest(Req(443, host, client, "none", 200))

SpecKeys == InitKeys /\ [][NextKeys]_vars

\* C9: two rate-limited requests use the same limiter exactly when they
\* have the same routing key and the limit is not per client or they come
\* from the same client address.
C9_SameBucketIffSameKey ==
    (prev[1] # NoLimited /\ prev[2] # NoLimited) =>
        ((prev[1].key = prev[2].key) <=>
            /\ prev[1].domain = prev[2].domain
            /\ ~prev[2].perIP \/ prev[1].client = prev[2].client)

(***************************************************************************)
(* SpecHealth: a domain with health checking enabled and two active        *)
(* backends that no probe has reached yet, and a third, inactive one that  *)
(* an earlier probe found healthy; the Health Checker and the Loader run   *)
(* side by side with the requests.                                         *)
(***************************************************************************)
HealthCatalog ==
    <<[DomainRow(1, <<"a">>, HostA, FALSE,
                 <<BackendRow(1, "http", "10.1.0.1", 1, TRUE, NULL),
                   BackendRow(2, "http", "10.1.0.2", 1, TRUE, NULL),
                   BackendRow(3, "http", "10.1.0.3", 1, FALSE, "healthy")>>,
                 <<>>, NoRow)
       EXCEPT !.health_check_enabled = TRUE]>>

InitHealth == InitWith(HealthCatalog)

NextHealth ==
    \/ LoaderQuery
    \/ LoaderRow("none")
    \/ LoaderFinish(FALSE)
    \/ \E j \in 1..3, status \in {"healthy", "unhealthy"} : HealthProbe(1, j, status)
    \/ HTTPRequest(Req(443, HostA, Client0, "none", 200))

SpecHealth == InitHealth /\ [][NextHealth]_vars

\* C11: a request served from the config of a finished Loader cycle is
\* answered 503 exactly when every backend row that cycle read is inactive
\* or recorded unhealthy by the Health Checker; otherwise it is proxied to
\* a backend whose row is active and recorded healthy or not probed yet.
RowSelectable(r) == r.is_active /\ r.health_status \in {"healthy", NULL}
C11_HealthGatesService ==
    (last.fresh /\ last.req.host = HostA /\ HostA \in DOMAIN loader.read) =>
        LET read == loader.read[HostA] IN
        /\ (last.status = 503) <=> (\A r \in Range(read) : ~RowSelectable(r))
        /\ (last.status # 503) =>
              /\ last.stage = "upstream"
              /\ \E r \in Range(read) :
                    r.id = last.backend.ID /\ RowSelectable(r)

\* The domain had been served, then probes recorded both active backends
\* unhealthy, a Loader cycle published that and the request got 503.
C11_Witness ==
    /\ last.fresh /\ last.status = 503
    /\ HostA \in DOMAIN metrics /\ metrics[HostA].RequestCount >= 1
    /\ HostA \in DOMAIN loader.read
    /\ \A r \in Range(loader.read[HostA]) :
          r.is_active => r.health_status = "unhealthy"

\* C12: a Loader step that publishes a config under a routing key the
\* Config Store already holds leaves the key's round-robin cursor as it was.
Publishes(k) ==
    /\ loader.pc = "rows"
    /\ loader.i <= Len(loader.rows)
    /\ loader'.i = loader.i + 1
    /\ loader'.skipped = loader.skipped
    /\ k = domainKey(loader.rows[loader.i])
C12_CursorPreserved ==
    [][\A k \in DOMAIN domains :
          Publishes(k) => domains'[k].currentBackend = domains[k].currentBackend]_vars

(***************************************************************************)
(* SpecTCP: a TCP domain (target tcp://, published under its name) with    *)
(* an HTTP backend and a TCP backend, address 1 blacklisted and a limit of *)
(* one connection per second, next to a plain HTTP domain.                 *)
(***************************************************************************)
HostMC == <<"mc">>
TCPCatalog ==
    <<DomainRow(1, HostMC, <<"tcp://", "mc.example", ":25565">>, FALSE,
                <<BackendRow(1, "http", "10.1.0.1", 1, TRUE, "healthy"),
                  BackendRow(2, "tcp", "10.1.0.2", 1, TRUE, "healthy")>>,
                <<BlockClient1>>, LimitRow(1, 1, FALSE)),
      DomainRow(2, <<"a">>, HostA, FALSE, <<HealthyBackend(3)>>, <<>>, NoRow)>>

InitTCP == InitWith(TCPCatalog)

Directions == {"c2b", "b2c"}

NextTCP ==
    \/ LoaderQuery
    \/ LoaderRow("none")
    \/ LoaderFinish(FALSE)
    \/ \E client \in {Client0, Client1}, dialOK \in BOOLEAN :
          TCPAccept(client, dialOK)
    \/ \E dir \in Directions : TCPLoopTop(dir)
    \/ \E dir \in Directions, res \in {"data", "eof", "error"} : TCPRead(dir, res)
    \/ \E dir \in Directions, ok \in BOOLEAN : TCPWrite(dir, ok)
    \/ TCPFinish

SpecTCP == InitTCP /\ [][NextTCP]_vars

\* C13: once a copy direction has ended, the other direction is not left
\* blocked in a Read on a connection that is still open: it has stopped, or
\* the handler has closed the connection it reads from.
ConnReadBy(dir) == IF dir = "c2b" THEN tcp.clientConn ELSE tcp.backendConn
C13_TeardownOnEnd ==
    tcp.pc = "proxy" =>
        \A dir \in Directions :
            (tcp[dir] = "done" /\ \E other \in Directions : tcp[other] = "read")
                => \A other \in Directions :
                      tcp[other] = "read" => ConnReadBy(other) = "closed"

\* C14: when the scan chose a domain, the backend selected for the
\* connection is an active TCP backend that is healthy or not probed yet,
\* and the connection is dialed.
C14_TCPBackendIsTCP ==
    tcp.candidate =>
        /\ tcp.outcome \in {"proxied", "dialfail"}
        /\ tcp.backend.Scheme = "tcp"
        /\ Selectable(tcp.backend)

\* C15: a connection that was proxied to a backend passed the chosen
\* domain's IP rules and took a token from its limiter.
C15_TCPPolicyEnforced ==
    tcp.outcome = "proxied" =>
        /\ checkIPRules(tcp.client, tcp.config)
        /\ tcp.config.RateLimit.set =>
              limiterKey(tcp.client, tcp.config) \in DOMAIN rateLimits

(***************************************************************************)
(* SpecStages: one domain in two versions that differ in backends, IP      *)
(* rules and rate limit; the table changes from one to the other while a   *)
(* request is between two stages of ServeHTTP.                             *)
(***************************************************************************)
StagesCatalog ==
    <<DomainRow(1, <<"a">>, HostA, FALSE, <<HealthyBackend(1)>>, <<>>, NoRow),
      DomainRow(1, <<"a">>, HostA, FALSE,
                <<BackendRow(2, "http", "10.1.0.2", 1, TRUE, NULL)>>,
                <<BlockClient1>>, LimitRow(1, 2, FALSE))>>

InitStages == InitWithDB(StagesCatalog, {1})

NextStages ==
    \/ LoaderQuery
    \/ LoaderRow("none")
    \/ LoaderFinish(FALSE)
    \/ \E S \in SUBSET (1..Len(catalog)) : AdminSet(S)
    \/ \E client \in {Client0, Client1} :
          ReqLookup(Req(443, HostA, client, "none", 200))
    \/ ReqRules
    \/ ReqLimit
    \/ ReqSelect

SpecStages == InitStages /\ [][NextStages]_vars

\* C16: whatever Loader steps fall between the stages of a request, the
\* IP rules, the rate limit and the backends its stages evaluate are those
\* of one config the Loader built from one row.
RowConfigs == {ConfigOfRow(catalog[i]) : i \in 1..Len(catalog)}
C16_OneConfigPerRequest ==
    inflight.pc # "idle" =>
        \/ inflight.status = 404
        \/ \E c \in RowConfigs :
              /\ inflight.rulesOf \in {Unset, <<c.IPRules>>}
              /\ inflight.limitOf \in {Unset, <<c.RateLimit>>}
              /\ inflight.backendsOf \in {Unset, <<c.Backends>>}

\* A request went through all three stages on the config it had looked up
\* while the Config Store already held the other version.
C16_Witness ==
    /\ inflight.pc = "done" /\ inflight.status = 200
    /\ inflight.stale
    /\ inflight.backendsOf # Unset
    /\ HostA \in DOMAIN domains
    /\ <<domains[HostA].Backends>> # inflight.backendsOf
    /\ <<domains[HostA].IPRules>> # inflight.rulesOf
    /\ <<domains[HostA].RateLimit>> # inflight.limitOf

(***************************************************************************)
(* SpecFlush: Record calls of the pipeline against flushes in progress,    *)
(* for a domain of the table and a key the table does not hold.         *)
(***************************************************************************)
FlushCatalog ==
    <<DomainRow(1, <<"a">>, HostA, FALSE, <<HealthyBackend(1)>>, <<>>, NoRow),
      DomainRow(2, <<"b">>, HostB, FALSE, <<HealthyBackend(2)>>, <<>>, NoRow)>>

InitFlush == InitWith(FlushCatalog)

NextFlush ==
    \/ \E domain \in {HostA, HostC} :
          \/ \E statusCode \in {200, 502} : RecordCall("http", domain, statusCode)
          \/ \E kind \in {"error", "tcp"} : RecordCall(kind, domain, 0)
    \/ RecordResume
    \/ FlushBegin
    \/ \E k \in DOMAIN metrics : FlushLock(k)
    \/ \E fail \in BOOLEAN : FlushQuery(fail)
    \/ \E ok \in BOOLEAN : FlushInsertHTTP(ok)
    \/ \E ok \in BOOLEAN : FlushInsertTCP(ok)
    \/ FlushEnd

SpecFlush == InitFlush /\ [][NextFlush]_vars

\* C17: no Record call waits for the mutex of a DomainMetrics while the
\* flush callback that holds it is in a store query or insert.
C17_FlushNeverBlocks ==
    ~(flush.rec # NoCall /\ LockedBy(flush, flush.rec.domain))

(***************************************************************************)
(* SpecShutdown: the three timer loops, the servers' wait group and the    *)
(* signal-handling goroutine, from the state in which main waits in        *)
(* wg.Wait().  SpecShutdownFair adds what the Go scheduler gives: every    *)
(* goroutine that can take a step takes one, and a select with a ready     *)
(* stop case takes it sooner or later (the choice among ready cases is     *)
(* uniformly random).                                                      *)
(***************************************************************************)
ShutdownCatalog ==
    <<[DomainRow(1, <<"a">>, HostA, FALSE,
                 <<BackendRow(1, "http", "10.1.0.1", 1, TRUE, NULL)>>, <<>>,
                 NoRow) EXCEPT !.health_check_enabled = TRUE]>>

InitShutdown == InitWith(ShutdownCatalog)

HealthCycleProbe ==
    /\ Running
    /\ proc.healthLoop = "cycle" /\ proc.ctx = "live"
    /\ \E status \in {"healthy", "unhealthy"} : HealthProbe(1, 1, status)

NextShutdown ==
    \/ Signal
    \/ Shutdown
    \/ AdminDone
    \/ MainReturn
    \/ LoaderTick
    \/ Running /\ LoaderRow("none")
    \/ Running /\ LoaderFinish(FALSE)
    \/ LoaderReturn
    \/ HealthTick
    \/ HealthCycleProbe
    \/ HealthCycleEnd
    \/ HealthReturn
    \/ Running /\ RecordCall("http", HostA, 200)
    \/ Running /\ RecordResume
    \/ Running /\ FlushBegin
    \/ Running /\ \E k \in DOMAIN metrics : FlushLock(k)
    \/ Running /\ FlushQuery(FALSE)
    \/ Running /\ FlushInsertHTTP(TRUE)
    \/ Running /\ FlushInsertTCP(TRUE)
    \/ Running /\ FlushEnd

SpecShutdown == InitShutdown /\ [][NextShutdown]_vars

SpecShutdownFair ==
    /\ SpecShutdown
    /\ WF_vars(Shutdown) /\ WF_vars(AdminDone) /\ WF_vars(MainReturn)
    /\ WF_vars(Running /\ LoaderRow("none"))
    /\ WF_vars(Running /\ LoaderFinish(FALSE))
    /\ SF_vars(LoaderReturn)
    /\ WF_vars(HealthCycleEnd) /\ SF_vars(HealthReturn)

\* The stop cases in the for-select of each timer loop (Loader.Start,
\* Checker.Start, periodicFlush) that have become ready.
Loops == {"loader", "health", "flush"}
StopReady(l) ==
    CASE l = "loader" -> proc.ctx = "cancelled"
      [] l = "health" -> proc.ctx = "cancelled" \/ proc.stopChan = "closed"
      [] l = "flush" -> FALSE

\* The loops that have left their for-select by its return statement.
Returned ==
    {l \in Loops : /\ l = "loader" => proc.loaderLoop = "returned"
                   /\ l = "health" => proc.healthLoop = "returned"
                   /\ l # "flush"}

\* C18: after the shutdown signal, the Loader loop, the Health Checker loop
\* and the Metrics flush loop each stop: the loop returns, or the process
\* ends while the loop's stop case is ready.
C18_LoopsStop ==
    proc.signal ~> \A l \in Loops : l \in Returned \/ (~Running /\ StopReady(l))

(***************************************************************************)
(* SpecPublish: what the Loader publishes for rows as createDomain stores  *)
(* them (the request body's target_url and weight go into the table as     *)
(* they come): a target URL with scheme and port, a bare host, a tcp://    *)
(* URL, and a backend whose weight was left out of the request body (0).   *)
(***************************************************************************)
URLA == <<"http://", "a.example", ":8080">>

PublishCatalog ==
    <<DomainRow(1, <<"a">>, URLA, FALSE,
                <<BackendRow(1, "http", "10.1.0.1", 0, TRUE, "healthy")>>,
                <<>>, NoRow),
      DomainRow(2, <<"b">>, HostB, FALSE, <<HealthyBackend(2)>>, <<>>, NoRow),
      DomainRow(3, HostMC, <<"tcp://", "mc.example", ":25565">>, FALSE,
                <<BackendRow(3, "tcp", "10.1.0.3", 1, TRUE, NULL)>>, <<>>,
                NoRow)>>

InitPublish == InitWith(PublishCatalog)

NextPublish ==
    \/ LoaderQuery
    \/ LoaderRow("none")
    \/ LoaderFinish(FALSE)
    \/ \E S \in SUBSET (1..Len(catalog)) : AdminSet(S)
    \/ \E host \in {HostA, HostA \o <<":443">>, HostB} :
          HTTPRequest(Req(443, host, Client0, "none", 200))

SpecPublish == InitPublish /\ [][NextPublish]_vars

\* The bare host of a target URL: the scheme and any port stripped.
Schemes == {"http://", "https://", "tcp://"}
BareHost(url) ==
    LET noScheme == IF Len(url) > 0 /\ url[1] \in Schemes THEN Tail(url)
                    ELSE url
    IN  StripPort(noScheme)

\* C19: after a cycle in which nothing failed, an HTTPS request whose Host
\* header, port stripped, is the bare host of the target URL of a row the
\* cycle read (not a tcp:// one) finds the config: it is not answered 404.
C19_BareHostRouted ==
    (/\ last.stage # "none" /\ last.fresh
     /\ \E i \in 1..Len(loader.rows) :
           /\ ~HasPrefixTCP(loader.rows[i].target_url)
           /\ BareHost(loader.rows[i].target_url) = StripPort(last.req.host))
    => last.status # 404

\* C20: every backend of every published DomainConfig has weight >= 1.
C20_WeightAtLeastOne ==
    \A k \in DOMAIN domains :
        \A i \in 1..Len(domains[k].Backends) :
            domains[k].Backends[i].Weight >= 1

(***************************************************************************)
(* SpecPolicy: one domain whose row, which never changes, blacklists one   *)
(* client address and limits the request rate; in any Loader cycle the     *)
(* load of its IP rules, of its rate limit, or of both may fail.           *)
(***************************************************************************)
PolicyCatalog ==
    <<DomainRow(1, <<"a">>, HostA, FALSE, <<HealthyBackend(1)>>,
                <<BlockClient1>>, LimitRow(1, 2, FALSE))>>

InitPolicy == InitWith(PolicyCatalog)

NextPolicy ==
    \/ LoaderQuery
    \/ \E fail \in {"none", "rules", "limit", "both"} : LoaderRow(fail)
    \/ LoaderFinish(FALSE)
    \/ \E client \in {Client0, Client1} :
          HTTPRequest(Req(443, HostA, client, "none", 200))

SpecPolicy == InitPolicy /\ [][NextPolicy]_vars

\* C21: while the row of a domain keeps its IP rules and its rate limit,
\* every config published for it carries both, whatever load fails in a
\* cycle, and a request from the blacklisted address is answered 403 once
\* the domain has been published (404 before).
C21_FailedLoadKeepsPolicy ==
    /\ \A k \in DOMAIN domains :
          \E i \in 1..Len(db) :
             /\ domainKey(db[i]) = k
             /\ domains[k].IPRules = loadIPRules(db[i].rules)
             /\ domains[k].RateLimit = loadRateLimit(db[i].limit)
    /\ (last.stage # "none" /\ last.req.client = Client1)
          => last.status \in {403, 404}

(***************************************************************************)
(* SpecRetune: one domain whose rate limit the table holds in two          *)
(* versions, one request per second with burst 1 and two with burst 2; the *)
(* table goes from one to the other between Loader cycles.                 *)
(***************************************************************************)
RetuneCatalog ==
    <<DomainRow(1, <<"a">>, HostA, FALSE, <<HealthyBackend(1)>>, <<>>,
                LimitRow(1, 1, FALSE)),
      DomainRow(1, <<"a">>, HostA, FALSE, <<HealthyBackend(1)>>, <<>>,
                LimitRow(2, 2, FALSE))>>

InitRetune == InitWithDB(RetuneCatalog, {1})

NextRetune ==
    \/ Tick
    \/ LoaderQuery
    \/ LoaderRow("none")
    \/ LoaderFinish(FALSE)
    \/ \E S \in {{1}, {2}} : AdminSet(S)
    \/ HTTPRequest(Req(443, HostA, Client0, "none", 200))

SpecRetune == InitRetune /\ [][NextRetune]_vars

\* C22: the token bucket that decided a rate-limited request refills at
\* requestsPerSecond and holds at most burstSize tokens of the RateLimit in
\* the config the request observed.
C22_BucketMatchesConfig ==
    (last.limited /\ last.key \in DOMAIN rateLimits) =>
        /\ rateLimits[last.key].limit = last.config.RateLimit.RequestsPerSecond
        /\ rateLimits[last.key].burst = last.config.RateLimit.BurstSize

(***************************************************************************)
(* SpecConcurrent: MaxSelectors goroutines call selectBackend at once, in  *)
(* batch after batch, on a config with any list of backends.               *)
(***************************************************************************)
ConcurrentSeqs ==
    UNION {{[i \in 1..n |-> BackendRow(i, "http", "10.1.0.1", 1, c[i].active,
                                       c[i].health)] :
               c \in [1..n -> [active : BOOLEAN,
                               health : {"healthy", "unhealthy", NULL}]]} :
           n \in 0..MaxBackends}

InitConcurrent ==
    \E bs \in ConcurrentSeqs :
        InitWith(<<DomainRow(1, <<"a">>, SelKey, FALSE, bs, <<>>, NoRow)>>)

NextConcurrent ==
    \/ StartupLoad
    \/ LoaderRow("none")
    \/ LoaderFinish(FALSE)
    \/ \E x \in Selectors : SelCall(x)
    \/ \E x \in Selectors : SelLock(x)
    \/ \E x \in Selectors : SelRead(x)
    \/ \E x \in Selectors : SelWrite(x)
    \/ \E x \in Selectors : SelUnlock(x)
    \/ SelReset

SpecConcurrent == InitConcurrent /\ [][NextConcurrent]_vars

\* The orders in which the calls of a batch can be put one after another.
Orders == {o \in [Selectors -> Selectors] :
              \A x, y \in Selectors : o[x] = o[y] => x = y}

\* The calls o[k], o[k+1], ... made one after another from cursor cur
\* return what the concurrent calls returned and end at the cursor's value.
RECURSIVE SequentialFrom(_, _, _)
SequentialFrom(o, k, cur) ==
    IF k > MaxSelectors THEN cur = domains[SelKey].currentBackend
    ELSE LET r == selectBackend([domains[SelKey] EXCEPT !.currentBackend = cur])
         IN  r.idx = rr.g[o[k]].idx /\ SequentialFrom(o, k + 1, r.cur)

\* C23: a goroutine reads and writes the cursor only while it holds the
\* config's lock; the cursor stays within the backend list; and when the
\* concurrent calls have returned, their results and the cursor are those
\* of the same calls made one after another in some order.
C23_SelectionsLinearizable ==
    /\ \A x \in Selectors :
          rr.g[x].pc \in {"loop", "write", "unlock"} => rr.mu = x
    /\ SelKey \in DOMAIN domains =>
          /\ Len(domains[SelKey].Backends) > 0 =>
                domains[SelKey].currentBackend
                    \in 0..(Len(domains[SelKey].Backends) - 1)
          /\ (\A x \in Selectors : rr.g[x].pc = "done") =>
                \E o \in Orders : SequentialFrom(o, 1, rr.c0)

\* Two calls were in Lock at the same time, both have returned, and they
\* returned different backends.
C23_Witness ==
    /\ \A x \in Selectors : rr.g[x].pc = "done"
    /\ rr.contended
    /\ \E x, y \in Selectors :
          rr.g[x].idx # 0 /\ rr.g[y].idx # 0 /\ rr.g[x].idx # rr.g[y].idx

(***************************************************************************)
(* SpecWindow: records and flushes with a store that answers every query   *)
(* and insert, for a domain of the table and a key the table does not      *)
(* hold.                                                                   *)
(***************************************************************************)
NextWindow ==
    \/ \E domain \in {HostA, HostC} :
          \/ \E statusCode \in {200, 502} : RecordCall("http", domain, statusCode)
          \/ \E kind \in {"error", "tcp"} : RecordCall(kind, domain, 0)
    \/ RecordResume
    \/ FlushBegin
    \/ \E k \in DOMAIN metrics : FlushLock(k)
    \/ FlushQuery(FALSE)
    \/ FlushInsertHTTP(TRUE)
    \/ FlushInsertTCP(TRUE)
    \/ FlushEnd

SpecWindow == InitFlush /\ [][NextWindow]_vars

\* C24: when the flush callback of a domain with requests or sessions in
\* its window returns, the window's counters are zero, also for a key the
\* store does not know; and between the callback's Lock and its return no
\* record enters the window, so what a row counts is what the reset clears
\* and no record is counted in two rows.
C24_FlushZeroesWindow ==
    [][flush.pc \in StoreCalls =>
          IF flush'.pc \in StoreCalls
          THEN metrics'[flush.domain] = metrics[flush.domain]
          ELSE metrics'[flush.domain] = NewDomainMetrics]_vars

(***************************************************************************)
(* SpecSessions: TCP sessions and flushes with a store that answers, for   *)
(* a domain whose target is a tcp:// URL and a domain whose target is a    *)
(* bare host, each with one TCP backend.                                   *)
(***************************************************************************)
SessionCatalog ==
    <<DomainRow(1, HostMC, <<"tcp://", "mc.example", ":25565">>, FALSE,
                <<BackendRow(1, "tcp", "10.1.0.1", 1, TRUE, "healthy")>>,
                <<>>, NoRow),
      DomainRow(2, <<"b">>, HostB, FALSE,
                <<BackendRow(2, "tcp", "10.1.0.2", 1, TRUE, "healthy")>>,
                <<>>, NoRow)>>

InitSessions == InitWith(SessionCatalog)

NextSessions ==
    \/ StartupLoad
    \/ LoaderRow("none")
    \/ LoaderFinish(FALSE)
    \/ \E dialOK \in BOOLEAN : TCPAccept(Client0, dialOK)
    \/ \E dir \in Directions : TCPLoopTop(dir)
    \/ \E dir \in Directions : TCPRead(dir, "eof")
    \/ TCPFinish
    \/ FlushBegin
    \/ \E k \in DOMAIN metrics : FlushLock(k)
    \/ FlushQuery(FALSE)
    \/ FlushInsertHTTP(TRUE)
    \/ FlushInsertTCP(TRUE)
    \/ FlushEnd

SpecSessions == InitSessions /\ [][NextSessions]_vars

\* The routing keys of the rows of the domains table.
StoredKeys == {domainKey(db[i]) : i \in 1..Len(db)}

TCPCountOf(m, k) == IF k \in DOMAIN m THEN m[k].TCPCount ELSE 0

\* C25: a session that ends after pumping bytes adds one TCP record under
\* the chosen domain's routing key, and a connection whose dial failed adds
\* none; when flush comes to a window with sessions of a domain that has a
\* row in the table, its query resolves the id, and the insert appends a
\* tcp_metrics row that counts the window's sessions.
C25_SessionReachesRow ==
    [][/\ (tcp.pc = "proxy" /\ tcp'.pc = "closed") =>
              /\ TCPCountOf(metrics', tcp.domain)
                    = TCPCountOf(metrics, tcp.domain) + 1
              /\ \A k \in DOMAIN metrics \ {tcp.domain} :
                    metrics'[k] = metrics[k]
       /\ (tcp' # tcp /\ tcp'.outcome = "dialfail") => metrics' = metrics
       /\ (/\ flush.pc = "query" /\ flush'.pc # "query"
           /\ metrics[flush.domain].TCPCount > 0
           /\ flush.domain \in StoredKeys) => flush'.pc = "http"
       /\ (/\ flush.pc = "tcp" /\ flush'.pc # "tcp"
           /\ metrics[flush.domain].TCPCount > 0) =>
              /\ Len(flush'.rows) = Len(flush.rows) + 1
              /\ flush'.rows[Len(flush'.rows)].table = "tcp_metrics"
              /\ flush'.rows[Len(flush'.rows)].request_count
                    = metrics[flush.domain].TCPCount]_vars

(***************************************************************************)
(* SpecProbe: the Health Checker probes an HTTP backend and a TCP backend  *)
(* of two health-checked domains against every network, and the Loader    *)
(* publishes what the probes wrote.                                        *)
(***************************************************************************)
ProbeCatalog ==
    <<[DomainRow(1, HostMC, <<"tcp://", "mc.example", ":25565">>, FALSE,
                 <<BackendRow(1, "tcp", "10.1.0.1", 1, TRUE, NULL)>>,
                 <<>>, NoRow)
       EXCEPT !.health_check_enabled = TRUE],
      [DomainRow(2, <<"a">>, HostA, FALSE,
                 <<BackendRow(2, "http", "10.1.0.2", 1, TRUE, NULL)>>,
                 <<>>, NoRow)
       EXCEPT !.health_check_enabled = TRUE]>>

InitProbe == InitWith(ProbeCatalog)

NextProbe ==
    \/ LoaderQuery
    \/ LoaderRow("none")
    \/ LoaderFinish(FALSE)
    \/ \E i \in 1..2, answers \in [1..2 -> Answers] : HealthCheck(i, 1, answers)

SpecProbe == InitProbe /\ [][NextProbe]_vars

HTTPProbe == probe.id # 0 /\ probe.scheme \in {"http", "https"}

\* An attempt that brought no response with a status code below 600.
NoAnswer(code) == code = TransportError \/ code >= 600

C27_TCPProbeDials ==
    /\ (probe.id # 0 /\ probe.scheme = "tcp") =>
          /\ probe.answers[1].reachable => probe.status = "healthy"
          /\ probe.status = "unhealthy" =>
                \E k \in 1..Len(probe.tried) : ~probe.answers[k].reachable
    /\ \A key \in DOMAIN domains :
          \A b \in Range(domains[key].Backends) :
              (b.Scheme = "tcp" /\ b.IsActive /\ b.ID \notin probe.down)
                  => Selectable(b)

(***************************************************************************)
(* SpecReject: a domain with two backends, a blacklisted address and one   *)
(* token per second, requested by both clients, and a host without a       *)
(* config.                                                                 *)
(***************************************************************************)
RejectCatalog ==
    <<DomainRow(1, <<"a">>, HostA, FALSE,
                <<HealthyBackend(1), HealthyBackend(2)>>,
                <<BlockClient1>>, LimitRow(1, 1, FALSE))>>

InitReject == InitWith(RejectCatalog)

NextReject ==
    \/ StartupLoad
    \/ LoaderRow("none")
    \/ LoaderFinish(FALSE)
    \/ Tick
    \/ \E host \in {HostA, HostD}, client \in {Client0, Client1},
          up \in {200, 404} :
          HTTPRequest(Req(443, host, client, "none", up))

SpecReject == InitReject /\ [][NextReject]_vars

\* C28: a request that the proxy itself answered 404 or 403 left every
\* limiter as it was and created none; a request it answered 403 or 429
\* left every cursor as it was and reached no backend.
C28_RejectionLeavesLaterStages ==
    /\ (last.stage # "upstream" /\ last.status \in {404, 403}) =>
          last.sameLimits
    /\ (last.stage # "upstream" /\ last.status \in {403, 429}) =>
          /\ last.sameDomains
          /\ last.backend = NoBackend

\* A request was refused with 429 after an earlier one had moved the
\* cursor of its domain.
C28_Witness ==
    /\ last.status = 429
    /\ HostA \in DOMAIN domains
    /\ domains[HostA].currentBackend = 1
    /\ HostA \in DOMAIN rateLimits

\* C29: the counter of main's WaitGroup, set to 2, never goes below zero,
\* whatever the order of the Done calls of the signal-handling goroutine
\* and of the admin-server goroutine: no Done panics.
C29_WaitGroupNeverNegative ==
    proc.wg >= 0 /\ proc.exit # "panicked"

\* The keys that flush's query finds in the domains table.
ResolvedKeys == {db[i].target_url : i \in 1..Len(db)}

\* C30: no request_metrics row has more errors than requests; and a
\* window that holds errors of a domain of the table is not passed over by
\* flush, and its errors are written in the row of that window, also when
\* the window holds no request.
C30_ErrorsReported ==
    [][/\ \A n \in 1..Len(flush'.rows) :
             flush'.rows[n].table = "request_metrics" =>
                 flush'.rows[n].error_count <= flush'.rows[n].request_count
       /\ \A k \in flush.todo \ flush'.todo :
             (k \in ResolvedKeys /\ metrics[k].ErrorCount > 0) =>
                 flush'.pc = "query" /\ flush'.domain = k
       /\ (/\ flush.pc = "http" /\ flush'.pc # "http"
           /\ metrics[flush.domain].ErrorCount > 0) =>
              /\ Len(flush'.rows) = Len(flush.rows) + 1
              /\ flush'.rows[Len(flush'.rows)].table = "request_metrics"
              /\ flush'.rows[Len(flush'.rows)].error_count
                    = metrics[flush.domain].ErrorCount]_vars

====
